---- MODULE Spec2Model ----
(***************************************************************************)
(* A model of the poker table engine (src/src/backend/poker_engine.py):    *)
(* PokerGame with its GameState, the two public operations start_new_hand  *)
(* and run_street_with_human_choice, and the helpers they call.            *)
(*                                                                         *)
(* Cards are the integers 0..51 in the order create_deck builds them       *)
(* (rank-major: card = 4 * rank index + suit index).  Fractions (bot       *)
(* traits, hand strength) are kept as integers over a common denominator,  *)
(* so every comparison is the exact comparison of the source's values.     *)
(***************************************************************************)
EXTENDS Integers, Sequences, FiniteSets

\* ---------------------------------------------------------------- bounds

\* A behaviour makes at most MaxCalls calls of the public operations.
MaxCalls == 5
\* The service runs NumThreads request handlers at a time and a behaviour
\* of the service takes at most MaxRequests requests.
NumThreads == 2
MaxRequests == 2
\* A caller asks the coach at most MaxAsks times about one situation.
MaxAsks == 2
\* The hand evaluator is given up to MaxCards cards of the deck's
\* EvalLowRanks lowest ranks and its aces.
MaxCards == 7
EvalLowRanks == 5
\* The conversion of outs is asked about up to MaxOuts outs.
MaxOuts == 52
\* create_deck's shuffle is one of NumShuffles orderings of the 52 cards.
NumShuffles == 2
\* The starting stack handed to the constructor.
StartingStack == 19

\* ------------------------------------------------------- program constants

NumRanks == 13
NumSuits == 4
SmallBlind == 5
BigBlind == 10
MinPlayers == 2
MaxPlayers == 8

\* The names handed to the constructor, of which a table takes the first n:
\* the human and the seven bots of BOT_PROFILES (a tight one and a loose one
\* first).
PlayerNames == <<"HUMAN", "Nit Neil", "Reckless Rafa", "Gambler Grace",
                 "LAG Lucy", "Crusher Carl", "Balanced Ben", "Station Sam">>

\* Traits in hundredths.
BOT_PROFILES ==
  [n \in {"Crusher Carl", "LAG Lucy", "Nit Neil", "Reckless Rafa",
          "Station Sam", "Balanced Ben", "Gambler Grace"} |->
     CASE n = "Crusher Carl"  -> [looseness |-> 25, aggression |-> 65, bluffiness |-> 15]
       [] n = "LAG Lucy"      -> [looseness |-> 75, aggression |-> 85, bluffiness |-> 50]
       [] n = "Nit Neil"      -> [looseness |-> 15, aggression |-> 30, bluffiness |-> 5]
       [] n = "Reckless Rafa" -> [looseness |-> 90, aggression |-> 95, bluffiness |-> 80]
       [] n = "Station Sam"   -> [looseness |-> 80, aggression |-> 25, bluffiness |-> 10]
       [] n = "Balanced Ben"  -> [looseness |-> 50, aggression |-> 60, bluffiness |-> 30]
       [] n = "Gambler Grace" -> [looseness |-> 80, aggression |-> 70, bluffiness |-> 60]]

DefaultProfile == [looseness |-> 40, aggression |-> 50, bluffiness |-> 20]

\* Optional values: <<>> is None, <<x>> is the value x.
None == <<>>
Some(x) == <<x>>

\* The human choices a request can carry; "bogus" stands for any other string.
HumanChoices == {"fold", "check_call", "bet_raise", "bogus", "None"}
ValidChoices == {"fold", "check_call", "bet_raise"}
\* The amounts a request can carry: none, negative, small, medium, oversized.
HumanAmounts == {None, Some(-5), Some(12), Some(1000)}
\* The random draws of a bot decision: random.random() returns a low value
\* (0.0) or a high one (just under 1.0), random.uniform(2.0, 4.0) returns
\* 2.0 on a low draw and 3.0 on a high one.
AllDraws == {"lo", "hi"}
Mult(d) == IF d = "lo" THEN 2 ELSE 3

\* ---------------------------------------------------------------- state

VARIABLES
  state,          \* PokerGame.state : GameState
  last_event,     \* PokerGame.last_event
  last_winner,    \* PokerGame.last_winner (None or Some(name))
  raised,         \* the exception the last call ended with ("" if it returned)
  looping,        \* TRUE when start_new_hand never returns (_advance_button)
  calls,          \* number of calls of the public operations so far
  last_call,      \* the operation called last
  replay_winner,  \* winner of a second execution of the last award
  handlers,       \* the service's request handlers (threads) and where they are
  coach           \* a caller of the coach: its inputs and the advice it got

vars == <<state, last_event, last_winner, raised, looping, calls, last_call,
          replay_winner, handlers, coach>>

\* ---------------------------------------------------------------- helpers

Min(S) == CHOOSE x \in S : \A y \in S : x <= y
Max(S) == CHOOSE x \in S : \A y \in S : x >= y
MinOf(a, b) == IF a <= b THEN a ELSE b
MaxOf(a, b) == IF a >= b THEN a ELSE b

RECURSIVE SortedSeq(_)
SortedSeq(S) == IF S = {} THEN <<>>
                ELSE LET m == Min(S) IN <<m>> \o SortedSeq(S \ {m})

RECURSIVE SumOver(_, _)
SumOver(f, S) == IF S = {} THEN 0
                 ELSE LET x == CHOOSE y \in S : TRUE IN f[x] + SumOver(f, S \ {x})

IndexOf(seq, x) == CHOOSE i \in 1..Len(seq) : seq[i] = x
InSeq(seq, x) == \E i \in 1..Len(seq) : seq[i] = x
Range(seq) == {seq[i] : i \in 1..Len(seq)}

Ids(s) == DOMAIN s.players
RankOf(card) == card \div NumSuits
SuitOf(card) == card % NumSuits

\* ------------------------------------------------------------ Cards & Deck

DeckSize == NumRanks * NumSuits

\* create_deck: the 52 cards in one of the orderings random.shuffle yields.
\* Ordering k reads the rank-major deck [r + s for r in RANKS for s in SUITS]
\* with stride Stride(k) from offset Offset(k); every stride is coprime to
\* 52, so each ordering is a permutation of the deck.  Ordering 0 deals low
\* cards to the second player of the list, ordering 1 is the unshuffled deck
\* (aces and kings are dealt first).
Stride(k) == CASE k = 0 -> 5 [] k = 1 -> 1 [] k = 2 -> 3 [] OTHER -> 7
Offset(k) == CASE k = 0 -> 25 [] k = 1 -> 0 [] OTHER -> 7 * k
create_deck(k) ==
  [i \in 1..DeckSize |-> ((i - 1) * Stride(k) + Offset(k)) % DeckSize]

\* ------------------------------------------------------------ Table model

\* Player (the dataclass's fields; mood is written by _bot_decision before it
\* is read and is a local of BotDecision here).
NewPlayer(i, nm, st) ==
  [id |-> i, name |-> nm, is_human |-> (nm = "HUMAN"), stack |-> StartingStack,
   seat |-> st, hole_cards |-> <<>>, in_hand |-> TRUE, has_folded |-> FALSE,
   has_all_in |-> FALSE, contribution_this_round |-> 0,
   total_contribution |-> 0, starting_stack |-> StartingStack]

profile(p) == IF p.name \in DOMAIN BOT_PROFILES THEN BOT_PROFILES[p.name]
              ELSE DefaultProfile

reset_for_new_hand(p) ==
  [p EXCEPT !.hole_cards = <<>>, !.in_hand = (p.stack > 0),
            !.has_folded = FALSE, !.has_all_in = FALSE,
            !.contribution_this_round = 0, !.total_contribution = 0]

\* GameState.active_players, as the set of their ids.
active_players(s) ==
  {i \in Ids(s) : s.players[i].in_hand /\ ~s.players[i].has_folded}

player_by_seat(s, seat) == CHOOSE i \in Ids(s) : s.players[i].seat = seat

total_chips(s) == s.pot + SumOver([i \in Ids(s) |-> s.players[i].stack], Ids(s))

\* -------------------------------------------------------- Internal mechanics

\* _take_bet that leaves total_contribution as it was.
_take_bet_StreetOnly(s, i, amount) ==
  LET p == s.players[i]
      q == [p EXCEPT !.stack = p.stack - amount,
                     !.contribution_this_round = p.contribution_this_round + amount,
                     !.has_all_in = IF p.stack - amount = 0 THEN TRUE
                                    ELSE p.has_all_in]
  IN [s EXCEPT !.players[i] = q, !.pot = s.pot + amount]
_take_bet(s, i, amount) ==
  LET p == s.players[i]
      q == [p EXCEPT !.stack = p.stack - amount,
                     !.contribution_this_round = p.contribution_this_round + amount,
                     !.total_contribution = p.total_contribution + amount,
                     !.has_all_in = IF p.stack - amount = 0 THEN TRUE
                                    ELSE p.has_all_in]
  IN [s EXCEPT !.players[i] = q, !.pot = s.pot + amount]

\* _record_action that starts the log over with the new entry.
_record_action_Overwrites(s, i, action_type, amount, street) ==
  [s EXCEPT !.action_history =
     <<[player_id |-> i, action_type |-> action_type,
        amount |-> amount, street |-> street]>>]
_record_action(s, i, action_type, amount, street) ==
  [s EXCEPT !.action_history =
     Append(s.action_history,
            [player_id |-> i, action_type |-> action_type,
             amount |-> amount, street |-> street])]

ActiveSeats(s) == SortedSeq({s.players[i].seat : i \in active_players(s)})

\* _next_occupied_seat; raises RuntimeError when nobody is active
\* (NoActive(s)), in which case the callers below stop.
NoActive(s) == active_players(s) = {}
_next_occupied_seat(s, seat) ==
  LET active_seats == ActiveSeats(s)
  IN IF ~InSeq(active_seats, seat) THEN active_seats[1]
     ELSE active_seats[(IndexOf(active_seats, seat) % Len(active_seats)) + 1]

blind_seats(s) ==
  LET sb_seat == _next_occupied_seat(s, s.button_seat)
  IN <<sb_seat, _next_occupied_seat(s, sb_seat)>>

_find_big_blind_seat(s) == blind_seats(s)[2]

\* _advance_button: the seat the loop stops at.  The loop steps through the
\* seats cyclically and returns at the first one whose player has chips;
\* when no player has chips it never returns (ButtonLoops).
SeatHasChips(s, seat) ==
  \E i \in Ids(s) : s.players[i].seat = seat /\ s.players[i].stack > 0
ButtonLoops(s) == \A i \in Ids(s) : s.players[i].stack <= 0
StepSeat(s, seat) ==
  LET seats == {s.players[i].seat : i \in Ids(s)}
  IN IF seat + 1 > Max(seats) THEN Min(seats) ELSE seat + 1
RECURSIVE ButtonFrom(_, _)
ButtonFrom(s, seat) ==
  LET next_seat == StepSeat(s, seat)
  IN IF SeatHasChips(s, next_seat) THEN next_seat ELSE ButtonFrom(s, next_seat)
\* _advance_button that takes the next seat whether or not it has chips.
_advance_button_NextSeat(s) ==
  [s EXCEPT !.button_seat = StepSeat(s, s.button_seat)]
_advance_button(s) == [s EXCEPT !.button_seat = ButtonFrom(s, s.button_seat)]

_post_blinds(s) ==
  LET seats == blind_seats(s)
      sb_player == player_by_seat(s, seats[1])
      bb_player == player_by_seat(s, seats[2])
      sb_amount == MinOf(s.players[sb_player].stack, SmallBlind)
      bb_amount == MinOf(s.players[bb_player].stack, BigBlind)
      s1 == _record_action(_take_bet(s, sb_player, sb_amount),
                           sb_player, "bet", sb_amount, "preflop")
      s2 == _record_action(_take_bet(s1, bb_player, bb_amount),
                           bb_player, "bet", bb_amount, "preflop")
  IN [s2 EXCEPT !.current_bet = BigBlind, !.last_raiser_seat = Some(seats[2])]

\* deck.pop(): the last card of the list.
Top(deck) == deck[Len(deck)]
Rest(deck) == SubSeq(deck, 1, Len(deck) - 1)

\* _deal_hole_cards: two rounds over the players in list order, one card to
\* each player who has chips left.  order is the list of players still to
\* be served; dealing stops (IndexError) when the deck runs out.
HoleOrder(s) ==
  LET one == SelectSeq(SortedSeq(Ids(s)), LAMBDA i : s.players[i].stack > 0)
  IN one \o one
RECURSIVE DealTo(_, _)
DealTo(s, order) ==
  IF order = <<>> \/ s.deck = <<>> THEN s
  ELSE LET i == Head(order)
       IN DealTo([s EXCEPT !.deck = Rest(s.deck),
                           !.players[i].hole_cards =
                              Append(s.players[i].hole_cards, Top(s.deck))],
                 Tail(order))
_deal_hole_cards(s) == DealTo(s, HoleOrder(s))
HoleDealRaises(s) == Len(HoleOrder(s)) > Len(s.deck)

\* _deal_flop / _deal_turn / _deal_river: burn one card, reveal 3 / 1 / 1.
\* With too few cards a pop raises IndexError after the deck was emptied
\* and before community_cards is touched.
DealRaises(s, n) == Len(s.deck) < n + 1
DealBoard_NoBurn(s, n) ==
  IF DealRaises(s, n) THEN [s EXCEPT !.deck = <<>>]
  ELSE LET m == Len(s.deck)
       IN [s EXCEPT !.deck = SubSeq(s.deck, 1, m - n),
                    !.community_cards =
                       s.community_cards \o [k \in 1..n |-> s.deck[m + 1 - k]]]
DealBoard(s, n) ==
  IF DealRaises(s, n) THEN [s EXCEPT !.deck = <<>>]
  ELSE LET d1 == Rest(s.deck)
           m == Len(d1)
       IN [s EXCEPT !.deck = SubSeq(d1, 1, m - n),
                    !.community_cards =
                       s.community_cards \o [k \in 1..n |-> d1[m + 1 - k]]]
_deal_flop(s) == DealBoard(s, 3)
_deal_turn(s) == DealBoard(s, 1)
_deal_river(s) == DealBoard(s, 1)

\* ------------------------------------------------ Hand strength + decisions

\* _hand_strength, in 1/1200.
_hand_strength(p) ==
  IF Len(p.hole_cards) < 2 THEN 0
  ELSE LET i1 == RankOf(p.hole_cards[1])
           i2 == RankOf(p.hole_cards[2])
           base == MaxOf(i1, i2) * 100
                   + (IF i1 = i2 THEN 480 ELSE 0)
                   + (IF SuitOf(p.hole_cards[1]) = SuitOf(p.hole_cards[2])
                      THEN 120 ELSE 0)
                   + (IF i1 - i2 = 1 \/ i2 - i1 = 1 THEN 60 ELSE 0)
       IN MaxOf(0, MinOf(1200, base))

\* _human_choice_to_action, the bet_raise branch: target_total after the
\* clamp.
TargetTotal(s, i, human_amount) ==
  LET p == s.players[i]
      can_check == MaxOf(0, s.current_bet - p.contribution_this_round) = 0
      default_total ==
        IF can_check THEN MaxOf(BigBlind * 2, p.stack \div 4)
        ELSE MaxOf(s.current_bet * 2, s.current_bet + BigBlind)
             + p.contribution_this_round
      requested == IF human_amount = None THEN default_total ELSE human_amount[1]
      max_total == p.contribution_this_round + p.stack
  IN MaxOf(BigBlind, MinOf(requested, max_total))

\* _human_choice_to_action, the check_call branch.
CheckCall_InFull(s, i) ==
  LET p == s.players[i]
      to_call == MaxOf(0, s.current_bet - p.contribution_this_round)
  IN IF to_call = 0 THEN <<"check", 0>> ELSE <<"call", to_call>>
CheckCall(s, i) ==
  LET p == s.players[i]
      to_call == MaxOf(0, s.current_bet - p.contribution_this_round)
  IN IF to_call = 0 THEN <<"check", 0>> ELSE <<"call", MinOf(to_call, p.stack)>>

\* _human_choice_to_action: the <<action_type, amount>> of the human seat.
_human_choice_to_action(s, i, choice, human_amount) ==
  LET p == s.players[i]
      to_call == MaxOf(0, s.current_bet - p.contribution_this_round)
      can_check == (to_call = 0)
      target_total == TargetTotal(s, i, human_amount)
      amount == target_total - p.contribution_this_round
  IN CASE choice = "fold" -> <<"fold", 0>>
       [] choice = "check_call" -> CheckCall(s, i)
       [] choice = "bet_raise" ->
            IF can_check THEN <<"bet", target_total>>
            ELSE IF amount <= to_call THEN <<"call", MinOf(to_call, p.stack)>>
            ELSE <<"raise", amount>>
       [] OTHER -> <<"check", 0>>

\* _bot_decision: the set of <<action_type, amount>> the bot can return when
\* each of its random draws is one of draws.  random.random() is in [0, 1):
\* a low draw r satisfies r < x iff x > 0 and never r > x; a high draw
\* satisfies r < x iff x >= 1 and r > x iff x < 1.  Traits are in 1/100,
\* strength in 1/1200, desire and bet_tendency in 1/12000, raise_tendency
\* in 1/240000.
_bot_decision(s, i, draws) ==
  LET p == s.players[i]
      prof == profile(p)
      mood == IF p.starting_stack > 0 /\ 2 * p.stack >= 3 * p.starting_stack
                THEN "heater"
              ELSE IF p.starting_stack > 0 /\ 10 * p.stack <= 7 * p.starting_stack
                THEN "tilt"
              ELSE "neutral"
      loose0 == CASE mood = "heater" -> prof.looseness + 10
                  [] mood = "tilt" /\ prof.aggression <= 50 -> prof.looseness - 10
                  [] OTHER -> prof.looseness
      aggr0 == CASE mood = "heater" -> prof.aggression + 10
                 [] mood = "tilt" /\ prof.aggression > 50 -> prof.aggression + 10
                 [] OTHER -> prof.aggression
      looseness == MaxOf(0, MinOf(100, loose0))
      aggression == MaxOf(0, MinOf(100, aggr0))
      bluffiness == prof.bluffiness
      can_check == (s.current_bet = p.contribution_this_round)
      to_call == MaxOf(0, s.current_bet - p.contribution_this_round)
      strength == _hand_strength(p)
      desire == strength * 7 + looseness * 36
      bet_tendency == aggression * 72 + strength * 4
      base == MaxOf(BigBlind, ((s.pot + BigBlind) * 6) \div 10)
      bet_size == MaxOf(BigBlind, MinOf(base, (p.stack * 6) \div 10))
      raise_tendency == aggression * (strength + 12 * bluffiness)
      \* random.random() > looseness, random.random() < x (x in 1/unit)
      Above(d) == d = "hi" /\ looseness < 100
      Below(d, x, unit) == IF d = "lo" THEN x > 0 ELSE x >= unit
      gives_up == desire < 2400
      bad_odds == (desire + 1200) * (s.pot + to_call) < 12000 * to_call
      the_call == <<"call", MinOf(to_call, p.stack)>>
      RaiseWith(mult) ==
        LET raise_size == MinOf(to_call * mult, p.stack)
        IN IF raise_size <= to_call THEN the_call ELSE <<"raise", raise_size>>
  IN IF p.stack <= 0 THEN {<<"check", 0>>}
     ELSE IF can_check THEN
       {<<"check", 0>> : d \in {d \in draws : gives_up /\ Above(d)}}
       \cup {IF Below(d2, bet_tendency, 12000) THEN <<"bet", bet_size>>
                                                ELSE <<"check", 0>> :
               d2 \in {d2 \in draws :
                         \E d1 \in draws : ~(gives_up /\ Above(d1))}}
     ELSE IF to_call <= 0 THEN {<<"check", 0>>}
     ELSE
       {<<"fold", 0>> : d \in {d \in draws : bad_odds /\ Above(d)}}
       \cup {IF Below(dd[1], raise_tendency, 240000) THEN RaiseWith(Mult(dd[2]))
                                                     ELSE the_call :
               dd \in {dd \in draws \X draws :
                         \E d1 \in draws : ~(bad_odds /\ Above(d1))}}

_apply_action(s, i, action_type, amount) ==
  CASE action_type = "fold" ->
         _record_action([s EXCEPT !.players[i].has_folded = TRUE,
                                  !.players[i].in_hand = FALSE],
                        i, "fold", 0, s.betting_round)
    [] action_type = "check" -> _record_action(s, i, "check", 0, s.betting_round)
    [] action_type \in {"call", "bet", "raise", "all-in"} ->
         LET to_put_in == MinOf(amount, s.players[i].stack)
             s1 == _record_action(_take_bet(s, i, to_put_in),
                                  i, action_type, to_put_in, s.betting_round)
         IN IF action_type \in {"bet", "raise", "all-in"}
            THEN [s1 EXCEPT !.current_bet =
                              MaxOf(s1.current_bet,
                                    s1.players[i].contribution_this_round),
                            !.last_raiser_seat = Some(s1.players[i].seat)]
            ELSE s1
    [] OTHER -> s

_first_to_act_preflop(s) == _next_occupied_seat(s, _find_big_blind_seat(s))
_first_to_act_postflop(s) == _next_occupied_seat(s, s.button_seat)

\* _reset_street_for_players up to the point where _next_occupied_seat
\* can raise, and in full.
RECURSIVE ZeroContributions(_, _)
ZeroContributions(s, ids) ==
  IF ids = {} THEN s
  ELSE LET i == Min(ids)
       IN ZeroContributions([s EXCEPT !.players[i].contribution_this_round = 0],
                            ids \ {i})
ResetContributions(s) ==
  [ZeroContributions(s, Ids(s)) EXCEPT !.current_bet = 0, !.last_raiser_seat = None]
_reset_street_for_players(s) ==
  LET s1 == ResetContributions(s)
  IN [s1 EXCEPT !.current_player_seat =
        Some(IF s1.betting_round = "preflop" THEN _first_to_act_preflop(s1)
             ELSE _first_to_act_postflop(s1))]

\* The seats run_street_with_human_choice walks, in order.
OrderedSeats_NoWrap(s) ==
  LET active_seats == ActiveSeats(s)
      start_index == IF s.current_player_seat # None
                        /\ InSeq(active_seats, s.current_player_seat[1])
                     THEN IndexOf(active_seats, s.current_player_seat[1])
                     ELSE 1
  IN SubSeq(active_seats, start_index, Len(active_seats))
OrderedSeats(s) ==
  LET active_seats == ActiveSeats(s)
      start_index == IF s.current_player_seat # None
                        /\ InSeq(active_seats, s.current_player_seat[1])
                     THEN IndexOf(active_seats, s.current_player_seat[1])
                     ELSE 1
  IN SubSeq(active_seats, start_index, Len(active_seats))
     \o SubSeq(active_seats, 1, start_index - 1)

\* The betting loop: the set of states it can end in.
RECURSIVE BettingLoop(_, _, _, _, _)
BettingLoop(s, seats, choice, human_amount, draws) ==
  IF seats = <<>> THEN {s}
  ELSE LET i == player_by_seat(s, Head(seats))
           p == s.players[i]
           decisions ==
             IF p.is_human
             THEN {_human_choice_to_action(s, i, choice, human_amount)}
             ELSE _bot_decision(s, i, draws)
       IN IF ~p.in_hand \/ p.has_folded \/ p.has_all_in
          THEN BettingLoop(s, Tail(seats), choice, human_amount, draws)
          ELSE UNION {BettingLoop(_apply_action(s, i, d[1], d[2]), Tail(seats),
                                  choice, human_amount, draws) : d \in decisions}

\* _handle_showdown_or_win with winner w, the player random.choice returns
\* when several are active.  ShowdownWinners is what it can return: the
\* first of the active players (in list order) on a low draw, the last on a
\* high draw, any of them when the draw is not restricted.
ShowdownWinners(s, draws) ==
  IF draws = AllDraws THEN active_players(s)
  ELSE {IF d = "lo" THEN Min(active_players(s)) ELSE Max(active_players(s)) :
          d \in draws}
AwardPot_KeepsPot(s, w) ==
  [s EXCEPT !.players[w].stack = s.players[w].stack + s.pot]
AwardPot(s, w) ==
  [s EXCEPT !.players[w].stack = s.players[w].stack + s.pot, !.pot = 0]

\* ------------------------------------------------------------ Construction

\* PokerGame.__init__ with the first n names: random.shuffle leaves the seats
\* 0..n-1 in one of their permutations and random.choice picks the button
\* seat.  Tables lists the outcomes <<n, seats, button>> the model starts
\* from: every two-player table (both seatings, both buttons), and a
\* three-player table (seats rotated by two against the list order).
Rotation(n, r) == [i \in 0..(n - 1) |-> (i + r) % n]
Tables ==
  {<<MinPlayers, Rotation(MinPlayers, r), b>> :
      r \in 0..(MinPlayers - 1), b \in 0..(MinPlayers - 1)}
  \cup {<<MinPlayers + 1, Rotation(MinPlayers + 1, 2), 1>>}

NewGame(n, seats, button) ==
  [players |-> [i \in 0..(n - 1) |-> NewPlayer(i, PlayerNames[i + 1], seats[i])],
   deck |-> <<>>, community_cards |-> <<>>, pot |-> 0, button_seat |-> button,
   current_bet |-> 0, last_raiser_seat |-> None, betting_round |-> "preflop",
   action_history |-> <<>>, current_player_seat |-> None]

\* A request handler: the operation it serves, where it is in it (at), and
\* the locals of run_street_with_human_choice it holds.  The engine called
\* directly, without the service, has its handlers idle throughout.
Threads == 1..NumThreads
IdleHandler ==
  [at |-> "idle", human_choice |-> "None", street_before |-> "None",
   ordered_seats |-> <<>>]
NoHandlers == [t \in Threads |-> IdleHandler]
\* Nobody has asked the coach.
NoCoach == [asked |-> 0]

Init ==
  /\ \E t \in Tables : state = NewGame(t[1], t[2], t[3])
  /\ last_event = <<"Game created.">>
  /\ last_winner = None
  /\ raised = ""
  /\ looping = FALSE
  /\ calls = 0
  /\ last_call = "__init__"
  /\ replay_winner = None
  /\ handlers = NoHandlers
  /\ coach = NoCoach

\* ------------------------------------------------------------- Public API

\* start_new_hand up to _advance_button.
RECURSIVE ResetPlayers(_, _)
ResetPlayers(s, ids) ==
  IF ids = {} THEN s
  ELSE LET i == Min(ids)
       IN ResetPlayers([s EXCEPT !.players[i] = reset_for_new_hand(s.players[i])],
                       ids \ {i})
ResetTable(s, k) ==
  [ResetPlayers(s, Ids(s)) EXCEPT
     !.deck = create_deck(k), !.community_cards = <<>>, !.pot = 0,
     !.current_bet = 0, !.last_raiser_seat = None,
     !.betting_round = "preflop", !.action_history = <<>>]

\* start_new_hand with shuffle k.  When no player has chips the call never
\* returns: the table stays as reset and no further call is served.
StartNewHand ==
  /\ ~looping
  /\ calls < MaxCalls
  /\ calls' = calls + 1
  /\ last_call' = "start_new_hand"
  /\ last_winner' = None
  /\ replay_winner' = None
  /\ UNCHANGED <<handlers, coach>>
  /\ \E k \in 0..(NumShuffles - 1) :
       LET s1 == ResetTable(state, k)
           s3 == _post_blinds(_advance_button(s1))
       IN IF ButtonLoops(s1)
          THEN /\ state' = s1
               /\ looping' = TRUE
               /\ raised' = ""
               /\ UNCHANGED last_event
          ELSE /\ state' = _deal_hole_cards(s3)
               /\ looping' = FALSE
               /\ IF HoleDealRaises(s3)
                  THEN raised' = "IndexError" /\ UNCHANGED last_event
                  ELSE raised' = "" /\ last_event' = <<"New hand started.">>

\* str.upper() and str.replace('_', '/') on the strings the model passes.
Upper(x) ==
  CASE x = "preflop" -> "PREFLOP" [] x = "flop" -> "FLOP" [] x = "turn" -> "TURN"
    [] x = "river" -> "RIVER" [] x = "fold" -> "FOLD"
    [] x = "check/call" -> "CHECK/CALL" [] x = "bet/raise" -> "BET/RAISE"
    [] x = "bogus" -> "BOGUS"
Slashed(x) ==
  CASE x = "check_call" -> "check/call" [] x = "bet_raise" -> "bet/raise"
    [] OTHER -> x

\* The last statement of run_street_with_human_choice: a missing choice
\* (None) has no replace() and the call ends in AttributeError.
SetLastEvent(street_before, choice) ==
  IF choice = "None"
  THEN raised' = "AttributeError" /\ UNCHANGED last_event
  ELSE /\ raised' = ""
       /\ last_event' = <<"On", Upper(street_before), "you chose",
                          Upper(Slashed(choice))>>

\* _handle_showdown_or_win followed by betting_round = "finished".
Resolve(s, draws) ==
  IF active_players(s) = {}
  THEN /\ state' = [s EXCEPT !.betting_round = "finished"]
       /\ last_winner' = None
       /\ replay_winner' = None
  ELSE \E w \in ShowdownWinners(s, draws), w2 \in ShowdownWinners(s, draws) :
         /\ state' = [AwardPot(s, w) EXCEPT !.betting_round = "finished"]
         /\ last_winner' = Some(s.players[w].name)
         /\ replay_winner' = Some(s.players[w2].name)

\* The street after street, the turn being played twice.
NextStreet_Stays(street) ==
  CASE street = "preflop" -> "flop" [] street = "flop" -> "turn"
    [] street = "turn" -> "turn" [] OTHER -> street
NextStreet_Skips(street) ==
  CASE street = "preflop" -> "turn" [] street = "flop" -> "turn"
    [] street = "turn" -> "river" [] OTHER -> street
NextStreet(street) ==
  CASE street = "preflop" -> "flop" [] street = "flop" -> "turn"
    [] street = "turn" -> "river" [] OTHER -> street
\* One card revealed on every street, the flop included.
CardsFor_OneEach(street) == 1
CardsFor(street) == IF street = "preflop" THEN 3 ELSE 1

\* The guard of run_street_with_human_choice: the hand is finished.
HandOver_Never(s) == FALSE
HandOver(s) == s.betting_round = "finished"

\* run_street_with_human_choice(choice, human_amount), the bots' random
\* draws being among draws.  A game is served only after its first
\* start_new_hand (app.py's create_new_game starts the first hand before it
\* registers the game), hence calls > 0.
RunStreet(choice, human_amount, draws) ==
  /\ ~looping
  /\ calls > 0
  /\ calls < MaxCalls
  /\ calls' = calls + 1
  /\ last_call' = "run_street_with_human_choice"
  /\ UNCHANGED <<looping, handlers, coach>>
  /\ IF HandOver(state)
     THEN /\ last_event' = <<"Hand already finished. Start a new hand.">>
          /\ raised' = ""
          /\ UNCHANGED <<state, last_winner, replay_winner>>
     ELSE IF NoActive(state)
     THEN /\ state' = ResetContributions(state)
          /\ raised' = "RuntimeError"
          /\ UNCHANGED <<last_event, last_winner, replay_winner>>
     ELSE LET s1 == _reset_street_for_players(state)
          IN IF Cardinality(active_players(s1)) <= 1
             THEN /\ Resolve(s1, draws)
                  /\ raised' = ""
                  /\ UNCHANGED last_event
             ELSE \E s2 \in BettingLoop(s1, OrderedSeats(s1), choice,
                                         human_amount, draws) :
                    IF Cardinality(active_players(s2)) <= 1
                       \/ s2.betting_round = "river"
                    THEN /\ Resolve(s2, draws)
                         /\ SetLastEvent(state.betting_round, choice)
                    ELSE IF DealRaises(s2, CardsFor(s2.betting_round))
                    THEN /\ state' = DealBoard(s2, CardsFor(s2.betting_round))
                         /\ raised' = "IndexError"
                         /\ UNCHANGED <<last_event, last_winner, replay_winner>>
                    ELSE /\ state' = [DealBoard(s2, CardsFor(s2.betting_round))
                                        EXCEPT !.betting_round =
                                                 NextStreet(s2.betting_round)]
                         /\ SetLastEvent(state.betting_round, choice)
                         /\ UNCHANGED <<last_winner, replay_winner>>

\* One request: human_amount is read only for bet_raise, so the other
\* choices are sent without one.
RunStreetCall ==
  \E choice \in HumanChoices :
    \E a \in (IF choice = "bet_raise" THEN HumanAmounts ELSE {None}) :
      RunStreet(choice, a, AllDraws)

Next == StartNewHand \/ RunStreetCall

Spec == Init /\ [][Next]_vars

\* The tables of every size the constructor accepts.  With up to seven bots
\* a street has too many outcomes to follow them all: here every random
\* draw of one call is low, or every one is high, and the human sends one
\* of the three choices without an amount.
BigTables ==
  {<<n, Rotation(n, 1), 0>> : n \in MinPlayers..MaxPlayers}
BigInit ==
  /\ \E t \in BigTables : state = NewGame(t[1], t[2], t[3])
  /\ last_event = <<"Game created.">>
  /\ last_winner = None
  /\ raised = ""
  /\ looping = FALSE
  /\ calls = 0
  /\ last_call = "__init__"
  /\ replay_winner = None
  /\ handlers = NoHandlers
  /\ coach = NoCoach
BigRunStreetCall ==
  \E choice \in ValidChoices, d \in AllDraws : RunStreet(choice, None, {d})
BigNext == StartNewHand \/ BigRunStreetCall
BigTableSpec == BigInit /\ [][BigNext]_vars

\* ------------------------------------------------------------ The service
\* app.py keeps the games in the dictionary active_games and serves each
\* request by calling the engine on the game it finds there; nothing in it
\* takes a lock, and app.run serves each request on a thread of its own.  A
\* handler runs the engine operation in steps (the statements between two
\* points where the threads may switch) and the steps of the handlers
\* interleave.

\* create_new_game: the game is registered after its first start_new_hand.
ServiceInit ==
  /\ \E t \in Tables, k \in 0..(NumShuffles - 1) :
       state = _deal_hole_cards(_post_blinds(_advance_button(
                 ResetTable(NewGame(t[1], t[2], t[3]), k))))
  /\ last_event = <<"New hand started.">>
  /\ last_winner = None
  /\ raised = ""
  /\ looping = FALSE
  /\ calls = 1
  /\ last_call = "start_new_hand"
  /\ replay_winner = None
  /\ handlers = NoHandlers
  /\ coach = NoCoach

At(t, where) == handlers[t].at = where
Goto(t, where) == handlers' = [handlers EXCEPT ![t].at = where]

\* player_action up to the call of the engine: the game is looked up and
\* the request's action read.
PlayerAction(t) ==
  /\ UNCHANGED coach
  /\ At(t, "idle")
  /\ calls <= MaxRequests
  /\ calls' = calls + 1
  /\ last_call' = "run_street_with_human_choice"
  /\ \E choice \in ValidChoices :
       handlers' = [handlers EXCEPT ![t] =
                      [IdleHandler EXCEPT !.at = "run_street",
                                          !.human_choice = choice]]
  /\ UNCHANGED <<state, last_event, last_winner, raised, looping, replay_winner>>

\* new_hand up to the call of the engine.
NewHand(t) ==
  /\ UNCHANGED coach
  /\ At(t, "idle")
  /\ calls <= MaxRequests
  /\ calls' = calls + 1
  /\ last_call' = "start_new_hand"
  /\ handlers' = [handlers EXCEPT ![t] =
                    [IdleHandler EXCEPT !.at = "start_new_hand"]]
  /\ UNCHANGED <<state, last_event, last_winner, raised, looping, replay_winner>>

\* run_street_with_human_choice up to the betting loop.
StreetEnter(t) ==
  /\ UNCHANGED coach
  /\ At(t, "run_street")
  /\ UNCHANGED <<looping, calls, last_call>>
  /\ IF HandOver(state)
     THEN /\ last_event' = <<"Hand already finished. Start a new hand.">>
          /\ raised' = ""
          /\ Goto(t, "return")
          /\ UNCHANGED <<state, last_winner, replay_winner>>
     ELSE IF NoActive(state)
     THEN /\ state' = ResetContributions(state)
          /\ raised' = "RuntimeError"
          /\ Goto(t, "return")
          /\ UNCHANGED <<last_event, last_winner, replay_winner>>
     ELSE LET s1 == _reset_street_for_players(state)
          IN IF Cardinality(active_players(s1)) <= 1
             THEN /\ Resolve(s1, AllDraws)
                  /\ raised' = ""
                  /\ Goto(t, "return")
                  /\ UNCHANGED last_event
             ELSE /\ state' = s1
                  /\ handlers' =
                       [handlers EXCEPT ![t].at = "betting",
                                        ![t].street_before = state.betting_round,
                                        ![t].ordered_seats = OrderedSeats(s1)]
                  /\ UNCHANGED <<last_event, last_winner, raised, replay_winner>>

\* One pass of the betting loop: the player on the next seat of
\* ordered_seats acts on the table as it is now.
StreetSeat(t) ==
  /\ UNCHANGED coach
  /\ At(t, "betting")
  /\ handlers[t].ordered_seats # <<>>
  /\ \E s2 \in BettingLoop(state, <<Head(handlers[t].ordered_seats)>>,
                           handlers[t].human_choice, None, AllDraws) :
       state' = s2
  /\ handlers' = [handlers EXCEPT ![t].ordered_seats = Tail(@)]
  /\ UNCHANGED <<last_event, last_winner, raised, looping, calls, last_call,
                 replay_winner>>

\* run_street_with_human_choice after the betting loop.
StreetLeave(t) ==
  /\ UNCHANGED coach
  /\ At(t, "betting")
  /\ handlers[t].ordered_seats = <<>>
  /\ Goto(t, "return")
  /\ UNCHANGED <<looping, calls, last_call>>
  /\ IF Cardinality(active_players(state)) <= 1 \/ state.betting_round = "river"
     THEN /\ Resolve(state, AllDraws)
          /\ SetLastEvent(handlers[t].street_before, handlers[t].human_choice)
     ELSE IF state.betting_round = "finished"
     THEN /\ SetLastEvent(handlers[t].street_before, handlers[t].human_choice)
          /\ UNCHANGED <<state, last_winner, replay_winner>>
     ELSE IF DealRaises(state, CardsFor(state.betting_round))
     THEN /\ state' = DealBoard(state, CardsFor(state.betting_round))
          /\ raised' = "IndexError"
          /\ UNCHANGED <<last_event, last_winner, replay_winner>>
     ELSE /\ state' = [DealBoard(state, CardsFor(state.betting_round))
                         EXCEPT !.betting_round = NextStreet(state.betting_round)]
          /\ SetLastEvent(handlers[t].street_before, handlers[t].human_choice)
          /\ UNCHANGED <<last_winner, replay_winner>>

\* start_new_hand up to _advance_button.
HandReset(t) ==
  /\ UNCHANGED coach
  /\ At(t, "start_new_hand")
  /\ \E k \in 0..(NumShuffles - 1) : state' = ResetTable(state, k)
  /\ last_winner' = None
  /\ replay_winner' = None
  /\ Goto(t, "_advance_button")
  /\ UNCHANGED <<last_event, raised, looping, calls, last_call>>

\* _advance_button: the loop leaves once a seat has chips.
HandButton(t) ==
  /\ UNCHANGED coach
  /\ At(t, "_advance_button")
  /\ ~ButtonLoops(state)
  /\ state' = _advance_button(state)
  /\ Goto(t, "_post_blinds")
  /\ UNCHANGED <<last_event, last_winner, raised, looping, calls, last_call,
                 replay_winner>>

\* _post_blinds; with nobody in the hand _next_occupied_seat raises.
HandBlinds(t) ==
  /\ UNCHANGED coach
  /\ At(t, "_post_blinds")
  /\ IF NoActive(state)
     THEN raised' = "RuntimeError" /\ Goto(t, "return") /\ UNCHANGED state
     ELSE /\ state' = _post_blinds(state)
          /\ Goto(t, "_deal_hole_cards")
          /\ UNCHANGED raised
  /\ UNCHANGED <<last_event, last_winner, looping, calls, last_call,
                 replay_winner>>

\* _deal_hole_cards and the end of start_new_hand.
HandDeal(t) ==
  /\ UNCHANGED coach
  /\ At(t, "_deal_hole_cards")
  /\ state' = _deal_hole_cards(state)
  /\ IF HoleDealRaises(state)
     THEN raised' = "IndexError" /\ UNCHANGED last_event
     ELSE raised' = "" /\ last_event' = <<"New hand started.">>
  /\ Goto(t, "return")
  /\ UNCHANGED <<last_winner, looping, calls, last_call, replay_winner>>

\* The handler serializes the game and answers.
Respond(t) ==
  /\ UNCHANGED coach
  /\ At(t, "return")
  /\ handlers' = [handlers EXCEPT ![t] = IdleHandler]
  /\ UNCHANGED <<state, last_event, last_winner, raised, looping, calls,
                 last_call, replay_winner>>

ServiceNext ==
  \E t \in Threads :
    \/ PlayerAction(t) \/ NewHand(t)
    \/ StreetEnter(t) \/ StreetSeat(t) \/ StreetLeave(t)
    \/ HandReset(t) \/ HandButton(t) \/ HandBlinds(t) \/ HandDeal(t)
    \/ Respond(t)
ServiceSpec == ServiceInit /\ [][ServiceNext]_vars

\* -------------------------------------------------------------- The coach
\* poker_coach.py.  Cards are the engine's (RANKS is the same string, so
\* RANKS.index(card[0]) is RankOf and card[1] is SuitOf); a card list is a
\* sequence.  A float is kept as the fraction <<numerator, denominator>> it
\* is computed from, with a positive denominator.

Frac(n, d) == <<n, d>>
FracLess(a, b) == a[1] * b[2] < b[1] * a[2]

RECURSIVE SortedDesc(_)
SortedDesc(S) == IF S = {} THEN <<>>
                 ELSE LET m == Max(S) IN <<m>> \o SortedDesc(S \ {m})

\* sorted(set(ranks), reverse=True)
unique_ranks(ranks) == SortedDesc(Range(ranks))

\* The ranks of the wheel: A, 2, 3, 4, 5.
Wheel == {NumRanks - 1, 0, 1, 2, 3}

_has_straight_NoWheel(ranks) ==
  LET u == unique_ranks(ranks)
  IN \E i \in 1..(Len(u) - 4) : u[i] - u[i + 4] = 4
_has_straight(ranks) ==
  LET u == unique_ranks(ranks)
  IN \/ Wheel \subseteq Range(u)
     \/ \E i \in 1..(Len(u) - 4) : u[i] - u[i + 4] = 4

_has_open_ended_straight_draw(ranks) ==
  LET u == unique_ranks(ranks)
  IN \E i \in 1..(Len(u) - 3) : u[i] - u[i + 3] = 3

_has_gutshot_draw(ranks) ==
  LET u == unique_ranks(ranks)
  IN \E i \in 1..(Len(u) - 3) : u[i] - u[i + 3] = 4

_outs_to_probability_Uncapped(outs, cards_to_come) ==
  CASE cards_to_come = 2 -> Frac(outs * 4, 100)
    [] cards_to_come = 1 -> Frac(outs * 2, 100)
    [] OTHER -> Frac(0, 100)

\* _outs_to_probability, as a fraction of 100.
_outs_to_probability(outs, cards_to_come) ==
  CASE cards_to_come = 2 -> Frac(MinOf(100, outs * 4), 100)
    [] cards_to_come = 1 -> Frac(MinOf(100, outs * 2), 100)
    [] OTHER -> Frac(0, 100)

\* _analyze_postflop_hand.  strength is in 1/StrengthUnit: 0.95 is 247,
\* 0.25 + (pair_rank / 13) * 0.25 is 5 * (13 + pair_rank), and
\* ranks[0] / 13 * 0.2 is 4 * ranks[0].  With no card at all ranks[0]
\* raises IndexError (AnalysisRaises).
StrengthUnit == 260
rank_count(cards, r) == Cardinality({i \in DOMAIN cards : RankOf(cards[i]) = r})
suit_count(cards, x) == Cardinality({i \in DOMAIN cards : SuitOf(cards[i]) = x})
AllRanks == 0..(NumRanks - 1)
AllSuits == 0..(NumSuits - 1)
AnalysisRaises(hero_hand, community_cards) ==
  Len(hero_hand) + Len(community_cards) = 0
_analyze_postflop_hand(hero_hand, community_cards) ==
  LET all_cards == hero_hand \o community_cards
      ranks == [i \in DOMAIN all_cards |-> RankOf(all_cards[i])]
      max_same_rank == Max({rank_count(all_cards, r) : r \in AllRanks})
      max_same_suit == Max({suit_count(all_cards, x) : x \in AllSuits})
      paired == {r \in AllRanks : rank_count(all_cards, r) >= 2}
      pairs == {r \in AllRanks : rank_count(all_cards, r) = 2}
      made ==
        IF max_same_rank = 4 THEN <<"Quads", 247>>
        ELSE IF max_same_rank = 3
        THEN IF Cardinality(paired) >= 2 THEN <<"Full House", 234>>
             ELSE <<"Three of a Kind", 169>>
        ELSE IF max_same_suit >= 5 THEN <<"Flush", 208>>
        ELSE IF _has_straight(ranks) THEN <<"Straight", 195>>
        ELSE IF Cardinality(pairs) >= 2 THEN <<"Two Pair", 143>>
        ELSE IF max_same_rank = 2 THEN <<"Pair", 5 * (NumRanks + Max(pairs))>>
        ELSE <<"High Card", 4 * Max(Range(ranks))>>
      flush_draw == max_same_suit = 4
      draw ==
        IF made[1] \in {"Pair", "High Card"}
        THEN IF _has_open_ended_straight_draw(ranks)
             THEN IF flush_draw THEN <<"Combo Draw (Flush + Straight)", 15>>
                  ELSE <<"Open-Ended Straight Draw", 8>>
             ELSE IF _has_gutshot_draw(ranks)
             THEN IF flush_draw THEN <<"Flush Draw + Gutshot", 12>>
                  ELSE <<"Gutshot Straight Draw", 4>>
             ELSE IF flush_draw THEN <<"Flush Draw", 9>> ELSE <<"None", 0>>
        ELSE IF flush_draw THEN <<"Flush Draw", 9>> ELSE <<"None", 0>>
  IN [strength |-> made[2], made_hand |-> made[1],
      draw_type |-> draw[1], outs |-> draw[2]]

\* RANKS, one character per rank.
RANKS == <<"2", "3", "4", "5", "6", "7", "8", "9", "T", "J", "Q", "K", "A">>
RankChar(card) == RANKS[RankOf(card) + 1]

_hand_to_code(card1, card2) ==
  IF RankOf(card1) = RankOf(card2) THEN RankChar(card1) \o RankChar(card2)
  ELSE LET hi == IF RankOf(card1) > RankOf(card2) THEN card1 ELSE card2
           lo == IF RankOf(card1) > RankOf(card2) THEN card2 ELSE card1
       IN RankChar(hi) \o RankChar(lo)
          \o (IF SuitOf(hi) = SuitOf(lo) THEN "s" ELSE "o")

\* _build_preflop_ranges
preflop_ranges ==
  [pos \in {"UTG", "MP", "CO", "BTN", "SB"} |->
     CASE pos = "UTG" ->
            {"AA", "KK", "QQ", "JJ", "TT", "99",
             "AKs", "AQs", "AJs", "AKo", "AQo"}
       [] pos = "MP" ->
            {"AA", "KK", "QQ", "JJ", "TT", "99", "88", "77",
             "AKs", "AQs", "AJs", "ATs", "KQs", "KJs", "QJs",
             "AKo", "AQo", "AJo", "KQo"}
       [] pos = "CO" ->
            {"AA", "KK", "QQ", "JJ", "TT", "99", "88", "77", "66", "55",
             "AKs", "AQs", "AJs", "ATs", "A9s", "A8s", "A5s", "A4s", "A3s", "A2s",
             "KQs", "KJs", "KTs", "QJs", "QTs", "JTs", "T9s", "98s",
             "AKo", "AQo", "AJo", "ATo", "KQo", "KJo", "QJo"}
       [] pos = "BTN" ->
            {"AA", "KK", "QQ", "JJ", "TT", "99", "88", "77", "66", "55", "44", "33", "22",
             "AKs", "AQs", "AJs", "ATs", "A9s", "A8s", "A7s", "A6s", "A5s", "A4s", "A3s", "A2s",
             "KQs", "KJs", "KTs", "K9s", "QJs", "QTs", "Q9s", "JTs", "J9s", "T9s", "T8s", "98s", "87s", "76s",
             "AKo", "AQo", "AJo", "ATo", "A9o", "KQo", "KJo", "KTo", "QJo", "QTo", "JTo"}
       [] pos = "SB" ->
            {"AA", "KK", "QQ", "JJ", "TT", "99", "88", "77", "66", "55", "44", "33", "22",
             "AKs", "AQs", "AJs", "ATs", "A9s", "A8s", "A7s", "A6s", "A5s", "A4s", "A3s", "A2s",
             "KQs", "KJs", "KTs", "K9s", "K8s", "QJs", "QTs", "Q9s", "JTs", "J9s", "T9s", "T8s", "98s", "87s",
             "AKo", "AQo", "AJo", "ATo", "A9o", "A8o", "KQo", "KJo", "KTo", "QJo"}]

\* _preflop_hand_strength, in 1/PreflopUnit: max(i1, i2) / 12 is
\* 100 * max(i1, i2), 0.35 is 420, 0.08 is 96, 0.05 is 60 and 0.1 is 120.
PreflopUnit == 1200
_preflop_hand_strength(hand) ==
  IF Len(hand) # 2 THEN 0
  ELSE LET i1 == RankOf(hand[1])
           i2 == RankOf(hand[2])
           base == MaxOf(i1, i2) * 100
                   + (IF i1 = i2 THEN 420 ELSE 0)
                   + (IF SuitOf(hand[1]) = SuitOf(hand[2]) THEN 96 ELSE 0)
                   + (IF i1 - i2 <= 3 /\ i2 - i1 <= 3 THEN 60 ELSE 0)
                   + (IF i1 >= 8 /\ i2 >= 8 THEN 120 ELSE 0)
       IN MinOf(PreflopUnit, MaxOf(0, base))

\* int(strength * 100) in the doubles the code computes with: the product
\* 0.58 * 100 is 57.99999999999999, every other strength truncates as the
\* exact product does.
IntPercent(strength) ==
  IF strength * 100 = 58 * PreflopUnit THEN 57
  ELSE (strength * 100) \div PreflopUnit

\* The format {x:.1%}: x in tenths of a percent, rounded.
Percent1(x) == (2000 * x[1] + x[2]) \div (2 * x[2])

\* CoachAdvice; an absent optional number is None, an absent optional
\* string "None".  A text (reasoning, alternative) is the f-string's fixed
\* words and the values it formats.
Text(words, values) == [words |-> words, values |-> values]
NoText == Text(<<>>, <<>>)
CoachAdvice(recommendation, reasoning, pot_odds, equity_estimate, hand_strength, outs, confidence, alternative) ==
  [recommendation |-> recommendation, reasoning |-> reasoning,
   pot_odds |-> pot_odds, equity_estimate |-> equity_estimate,
   hand_strength |-> hand_strength, outs |-> outs,
   confidence |-> confidence, alternative |-> alternative]

\* to_call / (pot + to_call) if pot + to_call > 0 else 0
PotOdds(pot, to_call) ==
  IF pot + to_call > 0 THEN Frac(to_call, pot + to_call) ELSE Frac(0, 1)

_preflop_advice(hero_hand, pot, current_bet, hero_contribution, hero_stack, position, num_opponents) ==
  IF Len(hero_hand) # 2
  THEN CoachAdvice("fold", Text(<<"Invalid hand">>, <<>>), None, None, "None",
                   None, "high", NoText)
  ELSE
  LET hand_code == _hand_to_code(hero_hand[1], hero_hand[2])
      to_call == current_bet - hero_contribution
      pos_range == IF position \in DOMAIN preflop_ranges
                   THEN preflop_ranges[position] ELSE preflop_ranges["MP"]
      strength == _preflop_hand_strength(hero_hand)
      equity == Frac(strength, PreflopUnit)
      facing_raise == to_call > 0 /\ 10 * current_bet > pot
      pot_odds == PotOdds(pot, to_call)
  IN IF facing_raise
     THEN IF hand_code \in {"AA", "KK", "QQ", "AKs", "AKo"}
          THEN CoachAdvice("raise",
                 Text(<<"Premium hand", hand_code, "3-bet for value">>,
                      <<IntPercent(strength)>>),
                 None, Some(equity), "Premium", None, "high",
                 Text(<<"Call to trap occasionally with AA/KK">>, <<>>))
          ELSE IF hand_code \in {"JJ", "TT", "AQs", "AQo", "KQs"}
          THEN CoachAdvice("call",
                 Text(<<"Strong hand", hand_code, "Call to see flop">>,
                      <<Percent1(pot_odds), IntPercent(strength)>>),
                 Some(pot_odds), Some(equity), "Strong", None, "medium",
                 Text(<<"3-bet as a bluff occasionally">>, <<>>))
          ELSE IF 10 * strength > 4 * PreflopUnit
          THEN IF FracLess(pot_odds, Frac(35, 100)) /\ num_opponents <= 2
               THEN CoachAdvice("call",
                      Text(<<"Decent hand", hand_code,
                             "favorable for speculative call">>,
                           <<Percent1(pot_odds)>>),
                      Some(pot_odds), Some(equity), "Marginal", None,
                      "medium", NoText)
               ELSE CoachAdvice("fold",
                      Text(<<"Hand", hand_code, "too weak facing raise",
                             "unfavorable">>,
                           <<num_opponents, Percent1(pot_odds)>>),
                      Some(pot_odds), None, "None", None, "medium", NoText)
          ELSE CoachAdvice("fold",
                 Text(<<"Weak hand", hand_code, "Clear fold facing aggression">>,
                      <<>>),
                 None, None, "None", None, "high", NoText)
     ELSE IF to_call = 0
     THEN IF hand_code \in pos_range
          THEN CoachAdvice("bet",
                 Text(<<"Strong hand for", position, hand_code, "Open-raise">>,
                      <<>>),
                 None, None, "In range", None, "high",
                 Text(<<"Suggested bet size">>,
                      <<MaxOf(50 * pot, 3 * hero_stack) \div 20>>))
          ELSE CoachAdvice("fold",
                 Text(<<"Hand", hand_code, "below opening range for", position>>,
                      <<>>),
                 None, None, "None", None, "high",
                 Text(<<"Could consider limping in SB/BB">>, <<>>))
     ELSE IF FracLess(pot_odds, equity) \/ FracLess(pot_odds, Frac(25, 100))
          THEN CoachAdvice("call",
                 Text(<<"Getting good pot odds", "Call to see flop">>,
                      <<Percent1(pot_odds), IntPercent(strength)>>),
                 Some(pot_odds), Some(equity), "None", None, "medium", NoText)
          ELSE CoachAdvice("fold",
                 Text(<<"Pot odds", "don't justify call with weak hand">>,
                      <<Percent1(pot_odds)>>),
                 Some(pot_odds), None, "None", None, "medium", NoText)

\* _postflop_advice.  The comparisons of floats are made on the fractions:
\* to_call < hero_stack * 0.3 is 10 * to_call < 3 * hero_stack, and
\* pot_odds < win_probability * 1.3 compares with 13/10 of the fraction.
StrongHands == {"Straight", "Flush", "Full House", "Quads", "Straight Flush"}
GoodHands == {"Three of a Kind", "Two Pair"}
_postflop_advice(hero_hand, community_cards, pot, current_bet, hero_contribution, hero_stack, position, street, num_opponents) ==
  LET to_call == current_bet - hero_contribution
      hand_analysis == _analyze_postflop_hand(hero_hand, community_cards)
      strength == Frac(hand_analysis.strength, StrengthUnit)
      made_hand == hand_analysis.made_hand
      draw_type == hand_analysis.draw_type
      outs == hand_analysis.outs
      pot_odds == IF pot + to_call > 0 /\ to_call > 0
                  THEN Frac(to_call, pot + to_call) ELSE Frac(0, 1)
      cards_to_come == IF street = "flop" THEN 2 ELSE 1
      win_probability == _outs_to_probability(outs, cards_to_come)
  IN IF to_call = 0
     THEN IF made_hand \in StrongHands
          THEN CoachAdvice("bet",
                 Text(<<"Strong made hand", made_hand, "Bet for value">>, <<>>),
                 None, Some(strength), made_hand, None, "high",
                 Text(<<"Suggested bet (60-75% pot)">>,
                      <<(pot * 6) \div 10, (pot * 75) \div 100>>))
          ELSE IF made_hand \in GoodHands
          THEN CoachAdvice("bet",
                 Text(<<"Good hand", made_hand,
                        "Bet for value and protection">>, <<>>),
                 None, Some(strength), made_hand, None, "high",
                 Text(<<"Suggested bet (50% pot)">>, <<(pot * 5) \div 10>>))
          ELSE IF made_hand = "Pair" /\ FracLess(Frac(4, 10), strength)
          THEN CoachAdvice("bet",
                 Text(<<"Decent pair", "Consider betting for thin value">>,
                      <<num_opponents>>),
                 None, Some(strength), made_hand, None, "medium",
                 Text(<<"Check is also fine to control pot size">>, <<>>))
          ELSE IF draw_type # "None" /\ outs >= 8
          THEN CoachAdvice("bet",
                 Text(<<"Strong draw", draw_type, "Semi-bluff">>,
                      <<outs, Percent1(win_probability)>>),
                 None, Some(win_probability), draw_type, Some(outs), "medium",
                 Text(<<"You improve on run-outs">>,
                      <<Percent1(win_probability)>>))
          ELSE CoachAdvice("check",
                 Text(<<"Weak holding", made_hand, "Check">>, <<>>),
                 None, Some(strength), made_hand, None, "medium", NoText)
     ELSE IF made_hand \in StrongHands
          THEN IF 10 * to_call < 3 * hero_stack
               THEN CoachAdvice("raise",
                      Text(<<"Very strong hand", made_hand, "Raise for value">>,
                           <<Percent1(pot_odds)>>),
                      Some(pot_odds), Some(Frac(85, 100)), made_hand, None,
                      "high", NoText)
               ELSE CoachAdvice("call",
                      Text(<<"Strong hand", made_hand, "Call">>, <<>>),
                      Some(pot_odds), Some(Frac(85, 100)), made_hand, None,
                      "high", NoText)
          ELSE IF made_hand \in GoodHands
          THEN IF FracLess(pot_odds, Frac(4, 10))
               THEN CoachAdvice("call",
                      Text(<<"Good hand", made_hand, "favorable", "Call">>,
                           <<Percent1(pot_odds)>>),
                      Some(pot_odds), Some(strength), made_hand, None,
                      "high", NoText)
               ELSE CoachAdvice("fold",
                      Text(<<"Hand", made_hand, "likely behind",
                             "too expensive">>, <<Percent1(pot_odds)>>),
                      Some(pot_odds), None, "None", None, "medium", NoText)
          ELSE IF draw_type # "None" /\ outs >= 8
          THEN IF FracLess(pot_odds, win_probability)
               THEN CoachAdvice("call",
                      Text(<<"Strong", draw_type, "Profitable call!">>,
                           <<outs, Percent1(win_probability),
                             Percent1(pot_odds), Percent1(win_probability)>>),
                      Some(pot_odds), Some(win_probability), draw_type,
                      Some(outs), "high", NoText)
               ELSE IF FracLess(pot_odds,
                                Frac(13 * win_probability[1],
                                     10 * win_probability[2]))
               THEN CoachAdvice("call",
                      Text(<<draw_type, "Close to pot odds",
                             "Consider implied odds">>,
                           <<outs, Percent1(pot_odds),
                             Percent1(win_probability)>>),
                      Some(pot_odds), Some(win_probability), draw_type,
                      Some(outs), "medium",
                      Text(<<"Fold if bet is very large relative to stack">>,
                           <<>>))
               ELSE CoachAdvice("fold",
                      Text(<<draw_type, "too expensive without implied odds">>,
                           <<outs, Percent1(win_probability),
                             Percent1(pot_odds)>>),
                      Some(pot_odds), Some(win_probability), "None",
                      Some(outs), "medium", NoText)
          ELSE IF FracLess(pot_odds, Frac(15, 100)) /\ num_opponents = 1
               THEN CoachAdvice("call",
                      Text(<<"Weak hand but getting great pot odds",
                             "Speculative call heads-up">>,
                           <<Percent1(pot_odds)>>),
                      Some(pot_odds), Some(strength), made_hand, None,
                      "low", NoText)
               ELSE CoachAdvice("fold",
                      Text(<<"Weak holding", made_hand,
                             "don't justify call">>, <<Percent1(pot_odds)>>),
                      Some(pot_odds), None, "None", None, "high", NoText)

\* get_advice; the call ends in IndexError when _analyze_postflop_hand is
\* given no card.
Raised(exception) ==
  CoachAdvice(exception, NoText, None, None, "None", None, "None", NoText)
get_advice(hero_hand, community_cards, pot, current_bet, hero_contribution, hero_stack, position, street, num_opponents) ==
  IF street = "preflop"
  THEN _preflop_advice(hero_hand, pot, current_bet, hero_contribution,
                       hero_stack, position, num_opponents)
  ELSE IF AnalysisRaises(hero_hand, community_cards) THEN Raised("IndexError")
  ELSE _postflop_advice(hero_hand, community_cards, pot, current_bet,
                        hero_contribution, hero_stack, position, street,
                        num_opponents)

\* The game a caller of the coach holds: the engine is not called while
\* the coach is asked.
engine_vars == <<state, last_event, last_winner, raised, looping, calls,
                 last_call, replay_winner, handlers>>
EngineIdle ==
  /\ state = NewGame(MinPlayers, Rotation(MinPlayers, 0), 0)
  /\ last_event = <<"Game created.">>
  /\ last_winner = None
  /\ raised = ""
  /\ looping = FALSE
  /\ calls = 0
  /\ last_call = "__init__"
  /\ replay_winner = None
  /\ handlers = NoHandlers

\* A card by its two characters, e.g. CardOf("A", "h").
SUITS == <<"s", "h", "d", "c">>
CardOf(r, x) == (IndexOf(RANKS, r) - 1) * NumSuits + (IndexOf(SUITS, x) - 1)

\* The situations the coach is asked about: <<hero_hand, community_cards,
\* street>>.
CoachHands ==
  { <<<<CardOf("A", "h"), CardOf("K", "h")>>,
      <<CardOf("Q", "h"), CardOf("J", "h"), CardOf("T", "h")>>, "flop">>,
    <<<<CardOf("9", "c"), CardOf("8", "c")>>,
      <<CardOf("K", "s"), CardOf("7", "c"), CardOf("2", "c")>>, "flop">>,
    <<<<CardOf("9", "c"), CardOf("8", "c")>>,
      <<CardOf("K", "s"), CardOf("7", "c"), CardOf("2", "c"),
        CardOf("3", "d")>>, "turn">>,
    <<<<CardOf("9", "c"), CardOf("8", "d")>>,
      <<CardOf("K", "s"), CardOf("6", "h"), CardOf("5", "s")>>, "flop">>,
    <<<<CardOf("9", "c"), CardOf("8", "d")>>,
      <<CardOf("K", "s"), CardOf("6", "h"), CardOf("5", "s"),
        CardOf("2", "d")>>, "turn">>,
    <<<<CardOf("9", "c"), CardOf("8", "d")>>,
      <<CardOf("K", "s"), CardOf("7", "h"), CardOf("6", "s")>>, "flop">>,
    <<<<CardOf("9", "c"), CardOf("8", "c")>>,
      <<CardOf("K", "c"), CardOf("7", "c"), CardOf("6", "s")>>, "flop">>,
    <<<<CardOf("9", "c"), CardOf("8", "c")>>,
      <<CardOf("K", "c"), CardOf("6", "c"), CardOf("5", "s")>>, "flop">>,
    <<<<CardOf("K", "c"), CardOf("7", "c")>>,
      <<CardOf("K", "s"), CardOf("7", "s"), CardOf("2", "c"),
        CardOf("9", "c")>>, "turn">>,
    <<<<CardOf("7", "c"), CardOf("7", "d")>>,
      <<CardOf("7", "s"), CardOf("K", "h"), CardOf("2", "c")>>, "flop">>,
    <<<<CardOf("A", "c"), CardOf("K", "d")>>,
      <<CardOf("A", "s"), CardOf("7", "h"), CardOf("2", "c")>>, "flop">>,
    <<<<CardOf("3", "c"), CardOf("K", "d")>>,
      <<CardOf("3", "s"), CardOf("7", "h"), CardOf("9", "c")>>, "flop">>,
    <<<<CardOf("A", "c"), CardOf("J", "d")>>,
      <<CardOf("9", "s"), CardOf("5", "h"), CardOf("2", "c"),
        CardOf("2", "d"), CardOf("K", "h")>>, "river">>,
    <<<<CardOf("A", "c"), CardOf("J", "d")>>,
      <<CardOf("9", "s"), CardOf("5", "h"), CardOf("2", "c")>>, "flop">>,
    <<<<CardOf("9", "c"), CardOf("8", "d")>>,
      <<CardOf("7", "s"), CardOf("6", "h"), CardOf("5", "s")>>, "flop">>,
    <<<<CardOf("A", "h"), CardOf("K", "d")>>,
      <<CardOf("Q", "s"), CardOf("J", "h"), CardOf("2", "c")>>, "flop">>,
    <<<<CardOf("A", "h"), CardOf("K", "d")>>,
      <<CardOf("Q", "s"), CardOf("J", "h"), CardOf("2", "c"),
        CardOf("7", "d"), CardOf("7", "c")>>, "river">>,
    <<<<CardOf("9", "c"), CardOf("8", "c")>>,
      <<CardOf("K", "s"), CardOf("7", "c"), CardOf("2", "c"),
        CardOf("3", "d"), CardOf("4", "h")>>, "river">>,
    <<<<CardOf("A", "c"), CardOf("A", "d")>>, <<>>, "preflop">>,
    <<<<CardOf("A", "c"), CardOf("K", "c")>>, <<>>, "preflop">>,
    <<<<CardOf("J", "c"), CardOf("J", "d")>>, <<>>, "preflop">>,
    <<<<CardOf("T", "c"), CardOf("9", "c")>>, <<>>, "preflop">>,
    <<<<CardOf("7", "c"), CardOf("2", "d")>>, <<>>, "preflop">>,
    <<<<CardOf("3", "c"), CardOf("2", "d")>>, <<>>, "preflop">>,
    <<<<>>, <<>>, "preflop">>,
    <<<<>>, <<>>, "flop">> }
CoachPots == {0, 60, 100}
CoachBets == {0, 10, 40, 200}
CoachContributions == {0, 10}
CoachStacks == {100, 500}
CoachPositions == {"UTG", "BTN", "BB"}
CoachOpponents == {1, 3}

NoAdvice == Raised("None")

CoachInit ==
  /\ EngineIdle
  /\ \E h \in CoachHands, pot \in CoachPots, current_bet \in CoachBets,
        hero_contribution \in CoachContributions, hero_stack \in CoachStacks,
        position \in CoachPositions, num_opponents \in CoachOpponents :
       coach = [asked |-> 0,
                query |-> [hero_hand |-> h[1], community_cards |-> h[2],
                           pot |-> pot, current_bet |-> current_bet,
                           hero_contribution |-> hero_contribution,
                           hero_stack |-> hero_stack, position |-> position,
                           street |-> h[3], num_opponents |-> num_opponents],
                advice |-> NoAdvice]

\* The caller's two card lists once get_advice has returned.  The code
\* reads them and builds all_cards as a new list; it stores into neither.
ListsAfterAdvice_Extended(hero_hand, community_cards) ==
  <<hero_hand \o community_cards, community_cards>>
ListsAfterAdvice(hero_hand, community_cards) ==
  <<hero_hand, community_cards>>

\* get_poker_advice: a new PokerCoach is asked.
GetPokerAdvice ==
  /\ coach.asked < MaxAsks
  /\ LET q == coach.query
         after == ListsAfterAdvice(q.hero_hand, q.community_cards)
     IN coach' = [asked |-> coach.asked + 1,
                  query |-> [q EXCEPT !.hero_hand = after[1],
                                      !.community_cards = after[2]],
                  advice |-> get_advice(q.hero_hand, q.community_cards, q.pot,
                                        q.current_bet, q.hero_contribution,
                                        q.hero_stack, q.position, q.street,
                                        q.num_opponents)]
  /\ UNCHANGED engine_vars

CoachNext == GetPokerAdvice
CoachSpec == CoachInit /\ [][CoachNext]_vars

\* The hand evaluator on its own: a caller collects distinct cards (in
\* ascending order, the analysis not depending on the order of the list) and
\* has them analysed, the first two as the hole cards and the rest as the
\* board.
EvalDeck ==
  {c \in 0..(DeckSize - 1) :
     RankOf(c) < EvalLowRanks \/ RankOf(c) = NumRanks - 1}
NoAnalysis ==
  [strength |-> 0, made_hand |-> "None", draw_type |-> "None", outs |-> 0]
EvaluatorInit ==
  /\ EngineIdle
  /\ coach = [cards |-> <<>>, analysis |-> NoAnalysis]

TakeCard ==
  /\ Len(coach.cards) < MaxCards
  /\ \E c \in EvalDeck :
       /\ \A i \in DOMAIN coach.cards : coach.cards[i] < c
       /\ coach' = [cards |-> Append(coach.cards, c), analysis |-> NoAnalysis]
  /\ UNCHANGED engine_vars

AnalyzeHand ==
  /\ coach.cards # <<>>
  /\ coach.analysis = NoAnalysis
  /\ coach' = [coach EXCEPT !.analysis =
                 _analyze_postflop_hand(
                   SubSeq(coach.cards, 1, MinOf(2, Len(coach.cards))),
                   SubSeq(coach.cards, 3, Len(coach.cards)))]
  /\ UNCHANGED engine_vars

EvaluatorNext == TakeCard \/ AnalyzeHand
EvaluatorSpec == EvaluatorInit /\ [][EvaluatorNext]_vars

\* Straight detection on its own: a caller collects the ranks of up to
\* MaxCards cards (in ascending order, the detection working on the set of
\* the ranks; a rank at most once per suit) and asks whether they hold a
\* straight.
StraightInit ==
  /\ EngineIdle
  /\ coach = [ranks |-> <<>>, straight |-> None]

TakeRank ==
  /\ Len(coach.ranks) < MaxCards
  /\ \E r \in AllRanks :
       /\ \A i \in DOMAIN coach.ranks : coach.ranks[i] <= r
       /\ Cardinality({i \in DOMAIN coach.ranks : coach.ranks[i] = r})
            < NumSuits
       /\ coach' = [ranks |-> Append(coach.ranks, r), straight |-> None]
  /\ UNCHANGED engine_vars

HasStraight ==
  /\ coach.straight = None
  /\ coach' = [coach EXCEPT !.straight = Some(_has_straight(coach.ranks))]
  /\ UNCHANGED engine_vars

StraightNext == TakeRank \/ HasStraight
StraightSpec == StraightInit /\ [][StraightNext]_vars

\* The conversion of outs on its own: a caller holds a count of outs, up to
\* MaxOuts, and the number of cards to come (2 on the flop, 1 later, 0 for
\* any other number) and asks for the probability.
OutsInit ==
  /\ EngineIdle
  /\ \E outs \in 0..MaxOuts, cards_to_come \in 0..2 :
       coach = [outs |-> outs, cards_to_come |-> cards_to_come,
                probability |-> None]

OutsToProbability ==
  /\ coach.probability = None
  /\ coach' = [coach EXCEPT !.probability =
                 Some(_outs_to_probability(coach.outs, coach.cards_to_come))]
  /\ UNCHANGED engine_vars

OutsNext == OutsToProbability
OutsSpec == OutsInit /\ [][OutsNext]_vars

TypeOK ==
  /\ state.betting_round \in {"preflop", "flop", "turn", "river", "finished"}
  /\ calls \in 0..MaxCalls

\* ------------------------------------------------------------------ claims

\* A call of start_new_hand has returned and none is stuck in the button loop.
Serving == calls > 0 /\ ~looping
\* The step is a call of run_street_with_human_choice / of start_new_hand
\* (one that returns).
RunStreetStep ==
  calls' = calls + 1 /\ last_call' = "run_street_with_human_choice"
StartNewHandStep ==
  calls' = calls + 1 /\ last_call' = "start_new_hand" /\ ~looping'

\* C1: over every sequence of start_new_hand and run_street calls,
\* total_chips() = pot + sum of stacks stays at its value at game creation,
\* number of players * starting stack.
C1_ChipsConserved ==
  total_chips(state) = Cardinality(Ids(state)) * StartingStack

\* C2: whenever a run_street call moves the hand to finished, exactly one
\* player who has not folded receives the whole pre-award pot, every other
\* stack is what it was before the award, the pot becomes 0 and last_winner
\* is that player's name.  The chips a player put in during the call are the
\* growth of total_contribution, so the stack before the award is the stack
\* before the call minus that growth, and the pre-award pot is the pot before
\* the call plus all the growth.
PutIn(i) ==
  state'.players[i].total_contribution - state.players[i].total_contribution
PreAwardPot == state.pot + SumOver([i \in Ids(state) |-> PutIn(i)], Ids(state))
C2_FinishAwardsWholePot ==
  [][(state.betting_round # "finished" /\ state'.betting_round = "finished")
       => /\ state'.pot = 0
          /\ \E w \in Ids(state) :
               /\ ~state'.players[w].has_folded
               /\ state'.players[w].in_hand
               /\ last_winner' = Some(state.players[w].name)
               /\ state'.players[w].stack
                    = state.players[w].stack - PutIn(w) + PreAwardPot
               /\ \A j \in Ids(state) \ {w} :
                    state'.players[j].stack = state.players[j].stack - PutIn(j)]_vars
C2_Witness ==
  /\ state.betting_round = "finished"
  /\ last_winner # None
  /\ state.pot = 0
  /\ \E i \in Ids(state) : state.players[i].stack > StartingStack

\* C3: with two or more players left at the end of the river the winner is a
\* function of the cards: a second execution from the same showdown state
\* awards the pot to the same player.
C3_ShowdownDeterministic == replay_winner = last_winner

\* C4: each run_street call on an unfinished hand moves betting_round to the
\* immediately following street or to finished, never backward, never past a
\* street, never leaving it as it was; only start_new_hand sets it back to
\* preflop.
StreetSuccessor ==
  {<<"preflop", "flop">>, <<"flop", "turn">>, <<"turn", "river">>,
   <<"preflop", "finished">>, <<"flop", "finished">>, <<"turn", "finished">>,
   <<"river", "finished">>}
C4_StreetsAdvanceInOrder ==
  [][/\ (RunStreetStep /\ state.betting_round # "finished")
          => <<state.betting_round, state'.betting_round>> \in StreetSuccessor
     /\ (state.betting_round # "preflop" /\ state'.betting_round = "preflop")
          => last_call' = "start_new_hand"]_vars
C4_Witness ==
  /\ state.betting_round = "river"
  /\ Len(state.action_history) > 2

\* C5: when betting_round is finished, run_street_with_human_choice changes
\* nothing of the table: the whole GameState and last_winner are unchanged,
\* only last_event is set to the informational message.
C5_FinishedHandIsFrozen ==
  [][(RunStreetStep /\ state.betting_round = "finished")
       => /\ state' = state
          /\ last_winner' = last_winner
          /\ last_event' = <<"Hand already finished. Start a new hand.">>]_vars
C5_Witness ==
  /\ last_event = <<"Hand already finished. Start a new hand.">>
  /\ state.betting_round = "finished"

\* C6: a run_street call whose human choice is none of fold, check_call,
\* bet_raise (a missing choice included) leaves the game state unchanged: no
\* action logged, no chips moved, no cards dealt, the street not advanced.
C6_MalformedChoiceChangesNothing ==
  [][(\E choice \in HumanChoices \ ValidChoices :
         RunStreet(choice, None, AllDraws))
       => (state' = state /\ last_winner' = last_winner)]_vars

\* C7: after start_new_hand returns and after every run_street call returns,
\* current_bet is the largest contribution_this_round among the players who
\* have not folded.
MaxContribution(s) ==
  IF active_players(s) = {} THEN 0
  ELSE Max({s.players[i].contribution_this_round : i \in active_players(s)})
C7_CurrentBetIsMaxContribution ==
  Serving => state.current_bet = MaxContribution(state)

\* C8: run_street applies and logs an action only for a player who is
\* in_hand, not folded and not all-in when acting (each call appends at most
\* one entry per player, for players eligible when the call began); and once
\* a player has folded or gone all-in, the hand's log gets no further entry
\* for that player (in start_new_hand: a player who posts both blinds is not
\* all-in after the first).
Eligible(p) == p.in_hand /\ ~p.has_folded /\ ~p.has_all_in
C8_OnlyEligiblePlayersAct ==
  [][/\ (RunStreetStep /\ state.betting_round # "finished")
          => LET old == state.action_history
                 new == state'.action_history
                 added == (Len(old) + 1)..Len(new)
             IN /\ Len(new) >= Len(old)
                /\ SubSeq(new, 1, Len(old)) = old
                /\ \A k \in added : Eligible(state.players[new[k].player_id])
                /\ \A k, m \in added :
                     new[k].player_id = new[m].player_id => k = m
     /\ StartNewHandStep
          => LET log == state'.action_history
             IN \A k, m \in 1..Len(log) :
                  (k < m /\ log[k].player_id = log[m].player_id)
                    => log[k].amount < state.players[log[k].player_id].stack]_vars

\* C9: after start_new_hand returns, every player marked in_hand holds
\* exactly two hole cards and every player not in_hand holds none.
C9_HoleCardsMatchInHand ==
  [][StartNewHandStep
       => \A i \in Ids(state) :
            Len(state'.players[i].hole_cards)
              = IF state'.players[i].in_hand THEN 2 ELSE 0]_vars

\* C10: within a hand no card is dealt twice: the hole cards, the community
\* cards and the remaining deck are pairwise distinct cards of the deck,
\* their number plus the burned cards (one per dealt street) is 52, and on
\* a table of 2 to 8 players no card is drawn from an empty deck: no deal
\* raises IndexError and with n players at least 52 - (2n + 8) cards remain.
RECURSIVE HoleCardsOf(_, _)
HoleCardsOf(s, ids) ==
  IF ids = {} THEN <<>>
  ELSE LET i == Min(ids) IN s.players[i].hole_cards \o HoleCardsOf(s, ids \ {i})
CardsInPlay(s) == HoleCardsOf(s, Ids(s)) \o s.community_cards \o s.deck
BurnedCards(s) ==
  CASE Len(s.community_cards) = 0 -> 0 [] Len(s.community_cards) = 3 -> 1
    [] Len(s.community_cards) = 4 -> 2 [] Len(s.community_cards) = 5 -> 3
    [] OTHER -> DeckSize
C10_NoCardDealtTwice ==
  Serving =>
    /\ Cardinality(Range(CardsInPlay(state))) = Len(CardsInPlay(state))
    /\ Range(CardsInPlay(state)) \subseteq 0..(DeckSize - 1)
    /\ Len(CardsInPlay(state)) + BurnedCards(state) = DeckSize
    /\ raised # "IndexError"
    /\ Len(state.deck) >= DeckSize - (2 * Cardinality(Ids(state)) + 8)
C10_Witness ==
  /\ state.betting_round = "river"
  /\ Len(state.community_cards) = 5
  /\ Cardinality(Ids(state)) = MaxPlayers
  /\ \A i \in Ids(state) : Len(state.players[i].hole_cards) = 2
  /\ Len(state.deck) = DeckSize - (2 * MaxPlayers + 8)

\* Wrapping seat order on a table of n seats 0..n-1: the number of steps
\* from seat a forward to seat b (a full round when b = a), and the seat of
\* S that comes first strictly after a.
SeatsOf(s) == {s.players[i].seat : i \in Ids(s)}
StepsTo(s, a, b) ==
  LET n == Cardinality(SeatsOf(s)) IN ((b - a - 1 + 2 * n) % n) + 1
FirstSeatAfter(s, a, S) ==
  CHOOSE x \in S : \A y \in S : StepsTo(s, a, x) <= StepsTo(s, a, y)
FundedSeats(s) == {s.players[i].seat : i \in {j \in Ids(s) : s.players[j].stack > 0}}
LiveSeats(s) == {s.players[i].seat : i \in active_players(s)}

\* C11: start_new_hand makes the first seat with chips after the (new)
\* button post min(stack, small blind) and the next such seat post
\* min(stack, big blind), the stack being what the player holds when
\* posting; the log is then exactly these two entries, tagged preflop, and
\* the pot is their sum.
C11_BlindsPosted ==
  [][(StartNewHandStep /\ raised' = "")
       => LET s == state'
              log == s.action_history
              sb_seat == FirstSeatAfter(state, s.button_seat, FundedSeats(state))
              bb_seat == FirstSeatAfter(state, sb_seat, FundedSeats(state))
              sb == player_by_seat(state, sb_seat)
              bb == player_by_seat(state, bb_seat)
              sb_amount == MinOf(state.players[sb].stack, SmallBlind)
              bb_stack == IF bb = sb THEN state.players[bb].stack - sb_amount
                          ELSE state.players[bb].stack
          IN /\ Len(log) = 2
             /\ log[1] = [player_id |-> sb, action_type |-> "bet",
                          amount |-> sb_amount, street |-> "preflop"]
             /\ log[2] = [player_id |-> bb, action_type |-> "bet",
                          amount |-> MinOf(bb_stack, BigBlind), street |-> "preflop"]
             /\ s.pot = log[1].amount + log[2].amount]_vars

\* The entries a step appends to the action log.
Appended == (Len(state.action_history) + 1)..Len(state'.action_history)

\* C12: the blinds stay live on the preflop street: the street reset at the
\* start of a preflop run_street call leaves current_bet at the big blind
\* set by start_new_hand, and no player who has put in less than that
\* checks in the call.
C12_BlindsStayLive ==
  [][(RunStreetStep /\ state.betting_round = "preflop" /\ ~NoActive(state))
       => /\ _reset_street_for_players(state).current_bet = BigBlind
          /\ \A k \in Appended :
               LET e == state'.action_history[k]
               IN e.action_type = "check"
                    => state.players[e.player_id].contribution_this_round
                         >= state.current_bet]_vars

\* C13: in each run_street call the logged actions follow wrapping seat
\* order starting from the first non-folded seat strictly after the
\* big-blind seat (preflop; the big blind is the player of the hand's second
\* log entry) or strictly after the button seat (flop, turn, river): the
\* seats of the appended entries are at increasing distance from that seat.
ActedSeat(k) == state.players[state'.action_history[k].player_id].seat
StreetReferenceSeat ==
  IF state.betting_round = "preflop"
  THEN state.players[state.action_history[2].player_id].seat
  ELSE state.button_seat
C13_ActionsInSeatOrder ==
  [][(RunStreetStep /\ state.betting_round # "finished")
       => \A k, m \in Appended :
            k < m => StepsTo(state, StreetReferenceSeat, ActedSeat(k))
                       < StepsTo(state, StreetReferenceSeat, ActedSeat(m))]_vars

\* C14: in one run_street call that reaches the betting loop (two or more
\* players are in the hand), every player who is in the hand and not all-in
\* gets exactly one action logged and nobody else gets any, also when a
\* later player bets or raises.
EntriesOf(i) == {k \in Appended : state'.action_history[k].player_id = i}
C14_OneActionEach ==
  [][(RunStreetStep /\ state.betting_round # "finished")
       => \A i \in Ids(state) :
            Cardinality(EntriesOf(i))
              = IF Cardinality(active_players(state)) >= 2
                   /\ Eligible(state.players[i])
                THEN 1 ELSE 0]_vars
\* A street ended on a raise that the player before, still in the hand with
\* chips, did not get to answer.
C14_Witness ==
  LET log == state.action_history
      n == Len(log)
  IN /\ last_call = "run_street_with_human_choice"
     /\ n >= 4
     /\ log[n].action_type = "raise"
     /\ log[n - 1].street = log[n].street
     /\ log[n - 1].player_id # log[n].player_id
     /\ log[n - 1].action_type \in {"check", "bet"}
     /\ Eligible(state.players[log[n - 1].player_id])
     /\ state.betting_round \notin {log[n].street, "finished"}

\* The requests a run_street call can carry.
Requests ==
  {<<choice, a>> \in HumanChoices \X HumanAmounts :
     choice = "bet_raise" \/ a = None}
\* The table is between two calls of an unfinished hand whose next
\* run_street call reaches the betting loop.
LoopAhead ==
  /\ Serving
  /\ ~HandOver(state)
  /\ Cardinality(active_players(state)) >= 2

\* C15: after every bet or raise applied during run_street, current_bet is
\* the acting player's contribution_this_round and last_raiser_seat is that
\* player's seat.  BetSetsCurrentBet walks the betting loop as BettingLoop
\* does and tests the table right after each applied bet or raise.
RECURSIVE BetSetsCurrentBet(_, _, _, _, _)
BetSetsCurrentBet(s, seats, choice, human_amount, draws) ==
  IF seats = <<>> THEN TRUE
  ELSE LET i == player_by_seat(s, Head(seats))
           p == s.players[i]
           decisions ==
             IF p.is_human
             THEN {_human_choice_to_action(s, i, choice, human_amount)}
             ELSE _bot_decision(s, i, draws)
       IN IF ~Eligible(p)
          THEN BetSetsCurrentBet(s, Tail(seats), choice, human_amount, draws)
          ELSE \A d \in decisions :
                 LET s2 == _apply_action(s, i, d[1], d[2])
                 IN /\ d[1] \in {"bet", "raise"}
                         => /\ s2.current_bet = s2.players[i].contribution_this_round
                            /\ s2.last_raiser_seat = Some(p.seat)
                    /\ BetSetsCurrentBet(s2, Tail(seats), choice,
                                         human_amount, draws)
C15_BetSetsCurrentBet ==
  LoopAhead =>
    \A r \in Requests :
      LET s1 == _reset_street_for_players(state)
      IN BetSetsCurrentBet(s1, OrderedSeats(s1), r[1], r[2], AllDraws)

\* The tables at which the human's turn comes in a betting loop over seats:
\* the bots seated before the human have acted.
RECURSIVE HumanTurnStates(_, _, _)
HumanTurnStates(s, seats, draws) ==
  IF seats = <<>> THEN {}
  ELSE LET i == player_by_seat(s, Head(seats))
           p == s.players[i]
       IN IF ~Eligible(p) THEN HumanTurnStates(s, Tail(seats), draws)
          ELSE IF p.is_human THEN {s}
          ELSE UNION {HumanTurnStates(_apply_action(s, i, d[1], d[2]),
                                      Tail(seats), draws) :
                        d \in _bot_decision(s, i, draws)}
\* Those of the next run_street call, and the human's id.
HumanTurns ==
  LET s1 == _reset_street_for_players(state)
  IN HumanTurnStates(s1, OrderedSeats(s1), AllDraws)
Human(s) == CHOOSE i \in Ids(s) : s.players[i].is_human

\* C16: for the human choice bet_raise the target total street contribution
\* used lies between the big blind and the player's maximum possible
\* contribution (street contribution + stack), for every requested amount.
C16_TargetTotalClamped ==
  LoopAhead =>
    \A s \in HumanTurns : \A a \in HumanAmounts :
      LET p == s.players[Human(s)]
      IN /\ BigBlind <= TargetTotal(s, Human(s), a)
         /\ TargetTotal(s, Human(s), a) <= p.contribution_this_round + p.stack

\* C17: for the human choice check_call the action is a check committing 0
\* chips when the outstanding call (current_bet minus own street
\* contribution, floored at 0) is 0, and otherwise a call committing exactly
\* min(outstanding call, stack) chips; the choice fold always yields a fold
\* committing 0 chips.  The chips are the amount of the action returned,
\* leave the stack, enter the pot and are the amount of the log entry.
Outstanding(s, i) ==
  IF s.current_bet - s.players[i].contribution_this_round > 0
  THEN s.current_bet - s.players[i].contribution_this_round ELSE 0
Commits(s, i, d, action_type, chips) ==
  LET s2 == _apply_action(s, i, d[1], d[2])
      log == s2.action_history
  IN /\ d = <<action_type, chips>>
     /\ Len(log) = Len(s.action_history) + 1
     /\ log[Len(log)] = [player_id |-> i, action_type |-> action_type,
                         amount |-> chips, street |-> s.betting_round]
     /\ s2.players[i].stack = s.players[i].stack - chips
     /\ s2.pot = s.pot + chips
     /\ s2.players[i].has_folded = (action_type = "fold")
C17_CheckCallAndFold ==
  LoopAhead =>
    \A s \in HumanTurns : \A a \in HumanAmounts :
      LET h == Human(s)
          owed == Outstanding(s, h)
          stack == s.players[h].stack
      IN /\ Commits(s, h, _human_choice_to_action(s, h, "fold", a), "fold", 0)
         /\ IF owed = 0
            THEN Commits(s, h, _human_choice_to_action(s, h, "check_call", a),
                         "check", 0)
            ELSE Commits(s, h, _human_choice_to_action(s, h, "check_call", a),
                         "call", IF owed <= stack THEN owed ELSE stack)
\* The human called a bet for less than the bet: the call took the whole
\* stack.
C17_Witness ==
  LET log == state.action_history
  IN /\ last_call = "run_street_with_human_choice"
     /\ last_event[Len(last_event)] = "CHECK/CALL"
     /\ \E k \in 2..Len(log) :
          /\ log[k].player_id = Human(state)
          /\ log[k].action_type = "call"
          /\ log[k - 1].street = log[k].street
          /\ log[k - 1].action_type = "bet"
          /\ log[k - 1].amount > log[k].amount
          /\ state.players[Human(state)].stack = 0

\* C18: during an unfinished hand every player still in the hand (in_hand
\* and not folded) has has_all_in true exactly when their stack is 0.
C18_AllInIffStackZero ==
  (Serving /\ state.betting_round # "finished")
    => \A i \in active_players(state) :
         state.players[i].has_all_in <=> (state.players[i].stack = 0)

\* C19: within one hand the action log is append-only: a call of
\* run_street_with_human_choice leaves the entries already present unchanged
\* and in place (the old log is a prefix of the new one), and every entry it
\* appends carries the street on which the call was made.
C19_LogAppendOnly ==
  [][RunStreetStep
       => LET old == state.action_history
              new == state'.action_history
          IN /\ Len(new) >= Len(old)
             /\ \A k \in 1..Len(old) : new[k] = old[k]
             /\ \A k \in Appended : new[k].street = state.betting_round]_vars
\* A call made on the flop has returned: the log holds the preflop entries
\* followed by the flop entries of that call.
C19_Witness ==
  /\ Serving
  /\ last_call = "run_street_with_human_choice"
  /\ raised = ""
  /\ state.betting_round = "turn"
  /\ \E k \in 1..Len(state.action_history) :
        /\ k > 2
        /\ state.action_history[k].street = "flop"
        /\ \E m \in 1..(k - 1) : state.action_history[m].street = "preflop"

\* C20: start_new_hand moves the button to the first seat strictly after
\* the previous button seat, in wrapping seat order, whose player has
\* stack > 0; the button stays on its seat only when no other player has
\* chips.
C20_ButtonAdvances ==
  [][StartNewHandStep
       => /\ state'.button_seat
               = FirstSeatAfter(state, state.button_seat, FundedSeats(state))
          /\ state'.button_seat = state.button_seat
               => FundedSeats(state) \subseteq {state.button_seat}]_vars
\* The third call at the three-handed table has left a player without
\* chips out of the hand: the calls were start_new_hand, a street, and
\* start_new_hand again, so the button was one step after the seat the
\* table was created with, and it has not gone to the seat after that one.
C20_Witness ==
  /\ Serving
  /\ last_call = "start_new_hand"
  /\ calls = 3
  /\ \E i \in Ids(state) :
        state.players[i].stack <= 0 /\ ~state.players[i].in_hand
  /\ \E t \in Tables :
        /\ t[1] > MinPlayers
        /\ t[1] = Cardinality(Ids(state))
        /\ state.button_seat # StepSeat(state, StepSeat(state, t[3]))

\* C21: engine operations on one game are mutually exclusive: two requests
\* for the same game handled concurrently by the service are never both
\* inside run_street_with_human_choice / start_new_hand.
InEngine(t) ==
  handlers[t].at \in {"betting", "_advance_button", "_post_blinds",
                      "_deal_hole_cards"}
C21_EngineOpsExclusive ==
  \A t, u \in Threads : (InEngine(t) /\ InEngine(u)) => t = u

\* C22: get_advice is a pure function of its nine inputs: a call leaves the
\* caller's inputs, card lists included, and the game as they were, and a
\* second call with the same inputs returns the same advice in every field.
GetPokerAdviceStep == coach'.asked = coach.asked + 1
RunFrom(R, lo) == \A k \in 0..4 : ((lo + k) % NumRanks) \in R
HasRun(R) == \E lo \in {NumRanks - 1} \cup 0..(NumRanks - 5) : RunFrom(R, lo)
RanksIn(cards) == {RankOf(cards[i]) : i \in DOMAIN cards}
RanksOfSuit(cards, x) ==
  {RankOf(cards[i]) : i \in {j \in DOMAIN cards : SuitOf(cards[j]) = x}}
Times(cards, r) == Cardinality({i \in DOMAIN cards : RankOf(cards[i]) = r})
StrongestCategory(cards) ==
  IF \E x \in AllSuits : HasRun(RanksOfSuit(cards, x)) THEN "Straight Flush"
  ELSE IF \E r \in AllRanks : Times(cards, r) >= 4 THEN "Quads"
  ELSE IF \E r, q \in AllRanks :
            r # q /\ Times(cards, r) >= 3 /\ Times(cards, q) >= 2
  THEN "Full House"
  ELSE IF \E x \in AllSuits :
            Cardinality({i \in DOMAIN cards : SuitOf(cards[i]) = x}) >= 5
  THEN "Flush"
  ELSE IF HasRun(RanksIn(cards)) THEN "Straight"
  ELSE IF \E r \in AllRanks : Times(cards, r) >= 3 THEN "Three of a Kind"
  ELSE IF \E r, q \in AllRanks :
            r # q /\ Times(cards, r) >= 2 /\ Times(cards, q) >= 2
  THEN "Two Pair"
  ELSE IF \E r \in AllRanks : Times(cards, r) >= 2 THEN "Pair"
  ELSE "High Card"
Analysed == coach.analysis # NoAnalysis
C23_StrongestCategory ==
  (Analysed /\ Len(coach.cards) >= 5)
    => coach.analysis.made_hand = StrongestCategory(coach.cards)

\* The coach has answered the query about these cards, pot and bet, the
\* hero having put nothing in this round.
Asked(hero_hand, community_cards, street, pot, current_bet) ==
  /\ coach.asked > 0
  /\ coach.query.hero_hand = hero_hand
  /\ coach.query.community_cards = community_cards
  /\ coach.query.street = street
  /\ coach.query.pot = pot
  /\ coach.query.current_bet = current_bet
  /\ coach.query.hero_contribution = 0
\* A fraction within lo% and hi%.
Within(x, lo, hi) ==
  /\ ~FracLess(x, Frac(lo, 100))
  /\ ~FracLess(Frac(hi, 100), x)

\* C24: for hero Ah Kh on board Qh Jh Th on the flop, pot 100 and current
\* bet 0, the advice reports the made hand Straight Flush with a category
\* strength of about 0.95 and recommends bet with high confidence.
C24_RoyalFlushAdvice ==
  Asked(<<CardOf("A", "h"), CardOf("K", "h")>>,
        <<CardOf("Q", "h"), CardOf("J", "h"), CardOf("T", "h")>>,
        "flop", 100, 0)
    => /\ coach.advice.hand_strength = "Straight Flush"
       /\ coach.advice.equity_estimate # None
       /\ Within(coach.advice.equity_estimate[1], 94, 96)
       /\ coach.advice.recommendation = "bet"
       /\ coach.advice.confidence = "high"

FracEq(a, b) == a[1] * b[2] = b[1] * a[2]

\* C25: for hero 9c 8c on board Ks 7c 2c on the flop, pot 60 and 40 to
\* call, the advice reports a flush draw with 9 outs and a completion
\* probability of 36%, pot odds of 40/140, below the equity, and recommends
\* call.
C25_FlushDrawAdvice ==
  Asked(<<CardOf("9", "c"), CardOf("8", "c")>>,
        <<CardOf("K", "s"), CardOf("7", "c"), CardOf("2", "c")>>,
        "flop", 60, 40)
    => /\ coach.advice.hand_strength = "Flush Draw"
       /\ coach.advice.outs = Some(9)
       /\ coach.advice.equity_estimate # None
       /\ FracEq(coach.advice.equity_estimate[1], Frac(36, 100))
       /\ coach.advice.pot_odds # None
       /\ FracEq(coach.advice.pot_odds[1], Frac(40, 140))
       /\ FracLess(coach.advice.pot_odds[1], coach.advice.equity_estimate[1])
       /\ coach.advice.recommendation = "call"

\* C26: postflop, facing a bet with a detected draw and no made hand above
\* a pair, the coach recommends call when the pot odds are below the
\* completion probability, call with the implied-odds caveat when they are
\* below 1.3 times that probability, and fold otherwise.
DrawFacingBet ==
  /\ coach.asked > 0
  /\ coach.query.street # "preflop"
  /\ coach.query.current_bet - coach.query.hero_contribution > 0
  /\ ~AnalysisRaises(coach.query.hero_hand, coach.query.community_cards)
  /\ LET a == _analyze_postflop_hand(coach.query.hero_hand,
                                     coach.query.community_cards)
     IN /\ a.draw_type # "None"
        /\ a.outs > 0
        /\ a.made_hand \in {"High Card", "Pair"}
C26_DrawsPricedByPotOdds ==
  DrawFacingBet =>
    LET q == coach.query
        a == _analyze_postflop_hand(q.hero_hand, q.community_cards)
        pot_odds == PotOdds(q.pot, q.current_bet - q.hero_contribution)
        win_probability ==
          _outs_to_probability(a.outs, IF q.street = "flop" THEN 2 ELSE 1)
    IN IF FracLess(pot_odds, win_probability)
       THEN coach.advice.recommendation = "call"
       ELSE IF FracLess(pot_odds, Frac(13 * win_probability[1],
                                       10 * win_probability[2]))
       THEN /\ coach.advice.recommendation = "call"
            /\ "Consider implied odds" \in Range(coach.advice.reasoning.words)
       ELSE coach.advice.recommendation = "fold"

\* C27: the hand analysis reports a draw only when the made hand is no
\* stronger than a pair: with Two Pair or better the draw type is absent
\* and the outs are 0.
C27_NoDrawWithMadeHand ==
  (Analysed /\ coach.analysis.made_hand \notin {"High Card", "Pair"})
    => /\ coach.analysis.draw_type = "None"
       /\ coach.analysis.outs = 0

\* C28: straight detection answers true exactly when the distinct ranks
\* present contain five consecutive ranks, the ace counting as the highest
\* rank (T J Q K A) or as the lowest (A 2 3 4 5) and never in the middle of
\* a run, for every multiset of up to seven ranks.
C28_StraightDetection ==
  coach.straight # None
    => (coach.straight[1] <=> HasRun(Range(coach.ranks)))
\* Seven ranks that hold the wheel and no other run have been found to be a
\* straight.
C28_Witness ==
  /\ coach.straight = Some(TRUE)
  /\ Len(coach.ranks) = MaxCards
  /\ Wheel \subseteq Range(coach.ranks)
  /\ 4 \notin Range(coach.ranks)
\* Ranks that wrap around the ace (Q K A 2 3) have been found not to be a
\* straight.
C28_WrapWitness ==
  /\ coach.straight = Some(FALSE)
  /\ Range(coach.ranks) = {NumRanks - 3, NumRanks - 2, NumRanks - 1, 0, 1}

\* C29: the conversion of outs returns four times the outs in percent with
\* two cards to come and twice the outs in percent with one (9 outs give
\* 36% and 18%), each capped at 100%, and never more than 100%.
Converted == coach.probability # None
C29_OutsToProbability ==
  Converted =>
    LET p == coach.probability[1]
        factor == IF coach.cards_to_come = 2 THEN 4 ELSE 2
    IN /\ ~FracLess(Frac(1, 1), p)
       /\ coach.cards_to_come \in {1, 2} =>
            IF factor * coach.outs <= 100
            THEN FracEq(p, Frac(factor * coach.outs, 100))
            ELSE FracEq(p, Frac(1, 1))
       /\ (coach.outs = 9 /\ coach.cards_to_come = 2) => FracEq(p, Frac(36, 100))
       /\ (coach.outs = 9 /\ coach.cards_to_come = 1) => FracEq(p, Frac(18, 100))
\* More outs than a quarter of a hundred, two cards to come: the cap has
\* been applied.
C29_Witness ==
  /\ Converted
  /\ coach.cards_to_come = 2
  /\ 4 * coach.outs > 100
  /\ FracEq(coach.probability[1], Frac(1, 1))

\* C30: start_new_hand returns in every state reachable through
\* start_new_hand and run_street called in any order: the loop of
\* _advance_button always comes to a seat whose player has chips.
C30_StartNewHandTerminates == ~looping

\* C31: after start_new_hand the hand is finished after at most four
\* run_street calls, whatever the human choices and the bots' decisions:
\* start_new_hand leaves the hand with four streets to run, each run_street
\* call on an unfinished hand leaves fewer streets to run than before, and
\* a call made on the river leaves the hand finished.
StreetsLeft(street) ==
  CASE street = "preflop" -> 4 [] street = "flop" -> 3 [] street = "turn" -> 2
    [] street = "river" -> 1 [] street = "finished" -> 0
C31_HandEndsInFourStreets ==
  [][/\ StartNewHandStep => StreetsLeft(state'.betting_round) = 4
     /\ (RunStreetStep /\ state.betting_round # "finished")
          => StreetsLeft(state'.betting_round) < StreetsLeft(state.betting_round)
     /\ (RunStreetStep /\ state.betting_round = "river")
          => state'.betting_round = "finished"]_vars
\* A hand played over all four streets: the fourth run_street call after
\* start_new_hand, made on the river with two players left, has finished it.
C31_Witness ==
  /\ calls = 5
  /\ last_call = "run_street_with_human_choice"
  /\ state.betting_round = "finished"
  /\ Len(state.community_cards) = 5
  /\ Cardinality(active_players(state)) >= 2

\* C32: at any time during a hand, also after players have folded,
\* blind_seats() returns the seats of the two players who posted the small
\* blind and the big blind in the hand's start_new_hand (the first two
\* entries of the hand's log).
BlindPosters(s) ==
  <<s.players[s.action_history[1].player_id].seat,
    s.players[s.action_history[2].player_id].seat>>
C32_BlindSeatsArePosters ==
  (Serving /\ state.betting_round # "finished")
    => /\ ~NoActive(state)
       /\ blind_seats(state) = BlindPosters(state)

\* C33: while a hand is unfinished, the pot is the sum of total_contribution
\* over all players, those who folded included.
TotalContributions(s) ==
  SumOver([i \in Ids(s) |-> s.players[i].total_contribution], Ids(s))
C33_PotIsSumOfContributions ==
  state.betting_round # "finished" => state.pot = TotalContributions(state)
\* A hand past the flop in which a player who put chips in has folded.
C33_Witness ==
  /\ state.betting_round \in {"turn", "river"}
  /\ state.pot > SmallBlind + BigBlind
  /\ \E i \in Ids(state) :
       state.players[i].has_folded /\ state.players[i].total_contribution > 0

\* C34: no operation makes a stack or the pot negative, and every logged
\* action amount is at least 0 and at most the stack its actor held
\* immediately before the action, for every human amount and every bot
\* decision.  A player acts at most once in a run_street call, so the stack
\* before the action is the stack before the call; in start_new_hand the
\* stack before the second blind is less the first blind when one player
\* posts both.
NothingNegative(s) ==
  /\ s.pot >= 0
  /\ \A i \in Ids(s) : s.players[i].stack >= 0
  /\ \A k \in DOMAIN s.action_history : s.action_history[k].amount >= 0
C34_AmountsWithinStacks ==
  [][/\ NothingNegative(state')
     /\ (RunStreetStep /\ state.betting_round # "finished")
          => \A k \in (Len(state.action_history) + 1)..Len(state'.action_history) :
               LET a == state'.action_history[k]
               IN a.amount <= state.players[a.player_id].stack
     /\ (StartNewHandStep /\ Len(state'.action_history) >= 2)
          => LET sb == state'.action_history[1]
                 bb == state'.action_history[2]
             IN /\ sb.amount <= state.players[sb.player_id].stack
                /\ bb.amount <= state.players[bb.player_id].stack
                                  - (IF bb.player_id = sb.player_id
                                     THEN sb.amount ELSE 0)]_vars

\* C35: in every reachable state the number of community cards is 0 on
\* preflop, 3 on the flop, 4 on the turn and 5 on the river, and in a
\* finished hand it is one of 0, 3, 4 and 5.
BoardSize(street) ==
  CASE street = "preflop" -> {0} [] street = "flop" -> {3}
    [] street = "turn" -> {4} [] street = "river" -> {5}
    [] street = "finished" -> {0, 3, 4, 5}
C35_BoardMatchesStreet ==
  Len(state.community_cards) \in BoardSize(state.betting_round)
\* A hand that ended on the turn, by folds, with four cards on the board.
C35_Witness ==
  /\ state.betting_round = "finished"
  /\ Len(state.community_cards) = 4
  /\ Cardinality(active_players(state)) <= 1

\* C36: when a bot bets into an unopened street, the bet it chooses is at
\* least one big blind and at most 60% of the stack it has left, for every
\* stack and pot.  The street is unopened for a bot when the next
\* run_street call has reset the street and the players before it have
\* checked: the table is then as ResetContributions leaves it.
UnopenedBets(s, i) ==
  {d[2] : d \in {d \in _bot_decision(ResetContributions(s), i, AllDraws) :
                   d[1] = "bet"}}
C36_BotBetWithinBounds ==
  (Serving /\ state.betting_round # "finished")
    => \A i \in active_players(state) :
         (~state.players[i].is_human /\ ~state.players[i].has_all_in)
           => \A bet \in UnopenedBets(state, i) :
                /\ bet >= BigBlind
                /\ 10 * bet <= 6 * state.players[i].stack

\* C37: an Open-Ended Straight Draw, with 8 outs, is reported only when the
\* cards hold four consecutive ranks that a card at either end completes to
\* a straight: the run starts at a rank from 2 (completed by the ace and
\* the 6) to T (completed by the 9 and the ace).  J Q K A, completed by the
\* T alone, is not open-ended.
OpenEnded(R) ==
  \E lo \in 0..(NumRanks - 5) : \A k \in 0..3 : (lo + k) \in R
QueryAnalysis ==
  _analyze_postflop_hand(coach.query.hero_hand, coach.query.community_cards)
PostflopAsked ==
  /\ coach.asked > 0
  /\ coach.query.street # "preflop"
  /\ ~AnalysisRaises(coach.query.hero_hand, coach.query.community_cards)
C37_OpenEndedHasTwoEnds ==
  (PostflopAsked /\ QueryAnalysis.draw_type = "Open-Ended Straight Draw")
    => /\ QueryAnalysis.outs = 8
       /\ OpenEnded(RanksIn(coach.query.hero_hand \o coach.query.community_cards))

\* C38: on the river no card is to come: the completion probability a draw
\* is priced with is 0 and the advice never recommends a call or a bet on
\* the strength of a draw (the draw advice is the advice that reports
\* outs).
C38_NoDrawAdviceOnRiver ==
  (PostflopAsked /\ coach.query.street = "river" /\ coach.advice.outs # None)
    => /\ coach.advice.equity_estimate # None
       /\ FracEq(coach.advice.equity_estimate[1], Frac(0, 1))
       /\ coach.advice.recommendation \notin {"call", "bet"}

====
